---- MODULE Spec2Model ----
(***************************************************************************)
(* A model of the kanguru data-preparation scripts:                        *)
(*   scripts/generate_explanations_from_pdf.py  (crop heuristic, main)     *)
(*   scripts/ocr_translate_solutions.py         (find_section, extract)    *)
(*   scripts/extract_solutions.py               (embedded-text extractor)  *)
(*                                                                         *)
(* Numbers the scripts hold as Python floats are modelled as exact         *)
(* rationals <<n, d>> with d > 0; int() truncates toward zero.             *)
(***************************************************************************)
EXTENDS Integers, Sequences, FiniteSets, TLC

VARIABLES
    script,           \* which script this run executes
    pc,               \* position of the run
    image_size,       \* compute_crop: (image_w, image_h)
    label_positions,  \* compute_crop: the page's labels, in dict order
    qid,              \* compute_crop: the target question ID
    crop,             \* compute_crop: the returned (left, top, width, height)
    frame,            \* compute_crop: its local variables at the return
    positions,        \* cluster_columns: the label list
    shuffled,         \* cluster_columns: the same list in another order
    clusters,         \* cluster_columns(positions)
    clusters_shuffled,\* cluster_columns(shuffled)
    argv_len,         \* main: len(sys.argv)
    pdf_exists,       \* main: pdf_path.exists()
    year_known,       \* main: year in ANSWER_KEYS
    api_key,          \* OPENAI_API_KEY is set
    num_pages,        \* main: len(pages), the rendered pages
    page_num,         \* main: the page of by_page being processed
    q_index,          \* main: index of the current qid in the page's list
    attempt,          \* main: 1 in the try block, 2 in the except block
    log,              \* the HTTP requests sent for the current qid
    accepted,         \* the explanation the image-based call returned
    explanation,      \* main: the local variable explanation
    explanations,     \* main: the dict of recorded explanations
    out_file,         \* the year's output JSON file
    writes,           \* how often the output file was written
    exit_code,        \* the process exit status, -1 while running
    input,            \* the pieces the input text is made of
    streams,          \* extract_text_from_pdf: the inflated content streams
    text,             \* the text blob (OCR output or extracted PDF text)
    section,          \* the text between the two headers
    matches,          \* pattern.findall(section)
    solutions,        \* the explanations dict of the solution extractors
    error,            \* the message of the error that ended the run, if any
    written,          \* the output file of the solution extractors
    pdfs,             \* extract_label_positions.py: which of PDFS exist
    year_index,       \* extract_label_positions.py: position in PDFS.items()
    label_files,      \* extract_label_positions.py: the years written
    printed,          \* the messages main printed about its arguments
    words,            \* extract_label_positions: the word boxes of the page
    scale_x,          \* extract_label_positions: image_w / page_w
    scale_y           \* extract_label_positions: image_h / page_h

cropVars == <<image_size, label_positions, qid, crop, frame>>
clusterVars == <<positions, shuffled, clusters, clusters_shuffled>>
genVars == <<argv_len, pdf_exists, year_known, api_key, num_pages, page_num, q_index,
             attempt, log, accepted, explanation, explanations, out_file, writes,
             exit_code>>
textVars == <<input, streams, text, section, matches, solutions, error, written>>
cliVars == <<pdfs, year_index, label_files, printed>>
wordVars == <<words, scale_x, scale_y>>
vars == <<script, pc, cropVars, clusterVars, genVars, textVars, cliVars, wordVars>>

----------------------------------------------------------------------------
(* Exact arithmetic standing for Python float arithmetic.                  *)

R(n) == <<n, 1>>
Half(n) == <<2 * n + 1, 2>>
RAdd(a, b) == <<a[1] * b[2] + b[1] * a[2], a[2] * b[2]>>
RSub(a, b) == <<a[1] * b[2] - b[1] * a[2], a[2] * b[2]>>
RScale(a, p, q) == <<a[1] * p, a[2] * q>>
RLe(a, b) == a[1] * b[2] <= b[1] * a[2]
RLt(a, b) == a[1] * b[2] < b[1] * a[2]
REq(a, b) == a[1] * b[2] = b[1] * a[2]
RMax(a, b) == IF RLt(a, b) THEN b ELSE a
RMin(a, b) == IF RLt(b, a) THEN b ELSE a
RAbs(a) == IF a[1] < 0 THEN <<-a[1], a[2]>> ELSE a
\* Python int(x): truncation toward zero
RInt(a) == IF a[1] >= 0 THEN a[1] \div a[2] ELSE -((-a[1]) \div a[2])
IMax(a, b) == IF a < b THEN b ELSE a
IMin(a, b) == IF b < a THEN b ELSE a

----------------------------------------------------------------------------
(* Characters. A string is a sequence of one-character strings.            *)

\* what \s matches
IsSpace(c) == c \in {" ", "\n", "\t", "\r"}
\* what \d matches
DigitChars == <<"0", "1", "2", "3", "4", "5", "6", "7", "8", "9">>
IsDigit(c) == \E d \in 1..10 : DigitChars[d] = c
DigitValue(c) == (CHOOSE d \in 1..10 : DigitChars[d] = c) - 1

UpperChars ==
    <<"A", "B", "C", "D", "E", "F", "G", "H", "I", "J", "K", "L", "M", "N", "O",
      "P", "Q", "R", "S", "T", "U", "V", "W", "X", "Y", "Z", "Ö">>
LowerChars ==
    <<"a", "b", "c", "d", "e", "f", "g", "h", "i", "j", "k", "l", "m", "n", "o",
      "p", "q", "r", "s", "t", "u", "v", "w", "x", "y", "z", "ö">>
\* re.IGNORECASE compares characters by their lower case
Lower(c) ==
    IF \E k \in 1..Len(UpperChars) : UpperChars[k] = c
    THEN LowerChars[CHOOSE k \in 1..Len(UpperChars) : UpperChars[k] = c]
    ELSE c

----------------------------------------------------------------------------
(* Program constants of compute_crop and cluster_columns.                  *)

tolerance == 90
next_margin == 4
padding_top == 24
padding_bottom == 16
padding_x == 18
min_bottom_offset == 140
min_gap == 24
min_estimate == 220
min_crop_width == 140
min_crop_height == 200

----------------------------------------------------------------------------
(* sorted(seq, key=...): Python's sort is stable.                          *)

RECURSIVE InsertByLeft(_, _)
InsertByLeft(s, x) ==
    IF s = <<>> THEN <<x>>
    ELSE IF RLt(x.left, s[1].left) THEN <<x>> \o s
    ELSE <<s[1]>> \o InsertByLeft(Tail(s), x)

RECURSIVE SortByLeft(_)
SortByLeft(s) ==
    IF s = <<>> THEN <<>>
    ELSE InsertByLeft(SortByLeft(SubSeq(s, 1, Len(s) - 1)), s[Len(s)])

RECURSIVE InsertByTop(_, _)
InsertByTop(s, x) ==
    IF s = <<>> THEN <<x>>
    ELSE IF RLt(x.top, s[1].top) THEN <<x>> \o s
    ELSE <<s[1]>> \o InsertByTop(Tail(s), x)

RECURSIVE SortByTop(_)
SortByTop(s) ==
    IF s = <<>> THEN <<>>
    ELSE InsertByTop(SortByTop(SubSeq(s, 1, Len(s) - 1)), s[Len(s)])

RECURSIVE InsertRat(_, _)
InsertRat(s, x) ==
    IF s = <<>> THEN <<x>>
    ELSE IF RLt(x, s[1]) THEN <<x>> \o s
    ELSE <<s[1]>> \o InsertRat(Tail(s), x)

RECURSIVE SortRat(_)
SortRat(s) ==
    IF s = <<>> THEN <<>>
    ELSE InsertRat(SortRat(SubSeq(s, 1, Len(s) - 1)), s[Len(s)])

----------------------------------------------------------------------------
(* cluster_columns                                                         *)

RECURSIVE SumLeft(_)
SumLeft(items) ==
    IF items = <<>> THEN R(0) ELSE RAdd(items[1].left, SumLeft(Tail(items)))

\* sum(item['left'] for item in items) / len(items)
MeanLeft(items) == RScale(SumLeft(items), 1, Len(items))

\* one iteration of the loop over sorted_positions
ClusterStep(cs, pos) ==
    IF cs = <<>>
       \/ RLt(R(tolerance), RAbs(RSub(pos.left, cs[Len(cs)].center)))
    THEN Append(cs, [center |-> pos.left, items |-> <<pos>>])
    ELSE LET last == cs[Len(cs)]
             items == Append(last.items, pos)
         IN  [cs EXCEPT ![Len(cs)] =
                 [center |-> MeanLeft(items), items |-> items]]

RECURSIVE ClusterLoop(_, _)
ClusterLoop(cs, rest) ==
    IF rest = <<>> THEN cs
    ELSE ClusterLoop(ClusterStep(cs, rest[1]), Tail(rest))

\* the clustering loop run on the list as given
cluster_columns_unsorted(positions_) == ClusterLoop(<<>>, positions_)

cluster_columns(positions_) == ClusterLoop(<<>>, SortByLeft(positions_))

----------------------------------------------------------------------------
(* compute_crop                                                            *)

HasLabel(lp, q) == \E i \in 1..Len(lp) : lp[i].id = q
LabelOf(lp, q) == lp[CHOOSE i \in 1..Len(lp) : lp[i].id = q]

\* min(range(len(centers)), key=lambda i: abs(centers[i] - current_x)):
\* the first index at the least distance
NearestCenter(centers, current_x) ==
    CHOOSE i \in 1..Len(centers) :
        /\ \A j \in 1..Len(centers) :
              RLe(RAbs(RSub(centers[i], current_x)), RAbs(RSub(centers[j], current_x)))
        /\ \A j \in 1..(i - 1) :
              RLt(RAbs(RSub(centers[i], current_x)), RAbs(RSub(centers[j], current_x)))

\* next((i for i, item in enumerate(column_items) if item['id'] == qid), -1),
\* counted from 1, with 0 for "not found"
CurrentIndex(column_items, q) ==
    IF \E i \in 1..Len(column_items) : column_items[i].id = q
    THEN CHOOSE i \in 1..Len(column_items) :
            /\ column_items[i].id = q
            /\ \A j \in 1..(i - 1) : column_items[j].id # q
    ELSE 0

\* the search for next_item without the test current_index != -1
NextIndexUnguarded(column_items, current_index, current) ==
    LET cand == {i \in (current_index + 1)..Len(column_items) :
                    RLt(RAdd(current.top, R(next_margin)), column_items[i].top)}
    IN  IF cand = {} THEN 0
        ELSE CHOOSE i \in cand : \A j \in cand : i <= j

\* the index of next_item in column_items, 0 for None
NextIndex(column_items, current_index, current) ==
    LET cand == {i \in (current_index + 1)..Len(column_items) :
                    RLt(RAdd(current.top, R(next_margin)), column_items[i].top)}
    IN  IF current_index = 0 \/ cand = {} THEN 0
        ELSE CHOOSE i \in cand : \A j \in cand : i <= j

\* the gaps list if every positive gap were kept
RECURSIVE GapsPositive(_, _)
GapsPositive(column_items, i) ==
    IF i > Len(column_items) THEN <<>>
    ELSE LET gap == RSub(column_items[i].top, column_items[i - 1].top)
         IN  (IF RLt(R(0), gap) THEN <<gap>> ELSE <<>>)
                 \o GapsPositive(column_items, i + 1)

\* the gaps list before gaps.sort()
RECURSIVE Gaps(_, _)
Gaps(column_items, i) ==
    IF i > Len(column_items) THEN <<>>
    ELSE LET gap == RSub(column_items[i].top, column_items[i - 1].top)
         IN  (IF RLt(R(min_gap), gap) THEN <<gap>> ELSE <<>>)
                 \o Gaps(column_items, i + 1)

\* min(max_height, max(220, estimated * 1.35)) with max_height = image_h * 0.55
AddedHeightSwapped(image_h, estimated) ==
    RMax(R(min_estimate), RMin(RScale(R(image_h), 11, 20), RScale(estimated, 27, 20)))

AddedHeight(image_h, estimated) ==
    RMin(RScale(R(image_h), 11, 20), RMax(R(min_estimate), RScale(estimated, 27, 20)))

\* crop_width = max(140, crop_right - crop_left)
CropWidth(crop_left, crop_right) == IMax(min_crop_width, crop_right - crop_left)

\* crop_height = min(image_h - top, max(200, int(bottom - top)))
CropHeightNoFloor(image_h, top, bottom) ==
    RMin(RSub(R(image_h), top), R(RInt(RSub(bottom, top))))

CropHeight(image_h, top, bottom) ==
    RMin(RSub(R(image_h), top), R(IMax(min_crop_height, RInt(RSub(bottom, top)))))

\* the local variables of compute_crop at its return, for a labelled qid
CropFrame(q, lp, size) ==
    LET image_w == size[1]
        image_h == size[2]
        current == LabelOf(lp, q)
        clusters_ == cluster_columns(lp)
        centers == SortRat([i \in 1..Len(clusters_) |-> clusters_[i].center])
        current_x == current.left
        idx == NearestCenter(centers, current_x)
        left_boundary ==
            IF idx = 1 THEN R(0)
            ELSE RScale(RAdd(centers[idx - 1], centers[idx]), 1, 2)
        right_boundary ==
            IF idx = Len(centers) THEN R(image_w)
            ELSE RScale(RAdd(centers[idx], centers[idx + 1]), 1, 2)
        column_items == SortByTop(clusters_[idx].items)
        current_index == CurrentIndex(column_items, q)
        next_index == NextIndex(column_items, current_index, current)
        top == RMax(R(0), RSub(current.top, R(padding_top)))
        gaps == SortRat(Gaps(column_items, 2))
        has_median == gaps # <<>>
        median_gap == IF has_median THEN gaps[(Len(gaps) \div 2) + 1] ELSE R(0)
        has_prev == current_index > 1
        estimated ==
            IF has_median THEN median_gap
            ELSE IF has_prev
                 THEN RSub(current.top, column_items[current_index - 1].top)
                 ELSE RScale(R(image_h), 1, 4)
        added == AddedHeight(image_h, estimated)
        bottom ==
            IF next_index # 0
            THEN RMax(RAdd(top, R(min_bottom_offset)),
                      RSub(column_items[next_index].top, R(padding_bottom)))
            ELSE RMin(R(image_h), RAdd(current.top, added))
        crop_left == IMax(0, RInt(RSub(left_boundary, R(padding_x))))
        crop_right == IMin(image_w, RInt(RAdd(right_boundary, R(padding_x))))
        crop_width == CropWidth(crop_left, crop_right)
        crop_height == CropHeight(image_h, top, bottom)
    IN  [labelled |-> TRUE,
         clusters |-> clusters_,
         idx |-> idx,
         column_items |-> column_items,
         current_index |-> current_index,
         next_index |-> next_index,
         top |-> top,
         has_median |-> has_median,
         has_prev |-> has_prev,
         estimated |-> estimated,
         added |-> added,
         bottom |-> bottom,
         crop_right |-> crop_right,
         result |-> <<R(crop_left), R(RInt(top)), R(crop_width), crop_height>>]

\* compute_crop: the full page when the ID has no detected label
compute_crop_frame(q, lp, size) ==
    IF ~HasLabel(lp, q)
    THEN [labelled |-> FALSE,
          result |-> <<R(0), R(0), R(size[1]), R(size[2])>>]
    ELSE CropFrame(q, lp, size)

compute_crop(q, lp, size) == compute_crop_frame(q, lp, size).result

----------------------------------------------------------------------------
(* Inputs of the crop heuristic.                                           *)

MaxLabels == 3

questions_by_page ==
    << <<"A1", "A2", "A3", "A4", "A5", "A6", "A7">>,
       <<"A8", "A9", "A10", "B1", "B2", "B3", "B4", "B5">>,
       <<"B6", "B7", "B8", "B9", "B10", "C1", "C2", "C3">>,
       <<"C4", "C5", "C6", "C7", "C8", "C9", "C10">> >>

\* the question IDs of page 1
PageIds == questions_by_page[1]

\* rendered page sizes (pixels) after `sips -Z 1400`: a portrait page and a
\* wide, low one
ImageSizes == {<<990, 1400>>, <<1400, 380>>}

\* label coordinates in pixel space (PDF points times the scale factor)
LeftSamples == {R(60), R(150), R(800), Half(960)}
TopSamples == {R(10), R(100), Half(1390)}

\* label boxes whose left/top lie inside the image
Points(size) ==
    {p \in LeftSamples \X TopSamples :
        RLt(p[1], R(size[1])) /\ RLt(p[2], R(size[2]))}

NoFrame == [labelled |-> FALSE, result |-> <<>>]

CropIdle ==
    /\ image_size = <<0, 0>>
    /\ label_positions = <<>>
    /\ qid = ""
    /\ crop = <<>>
    /\ frame = NoFrame

ClusterIdle ==
    /\ positions = <<>>
    /\ shuffled = <<>>
    /\ clusters = <<>>
    /\ clusters_shuffled = <<>>

None == [kind |-> "none", has_story |-> FALSE, story |-> <<>>]
OldFile == [old |-> TRUE]

GenIdle ==
    /\ argv_len = 0
    /\ pdf_exists = FALSE
    /\ year_known = FALSE
    /\ api_key = FALSE
    /\ num_pages = 0
    /\ page_num = 0
    /\ q_index = 0
    /\ attempt = 0
    /\ log = <<>>
    /\ accepted = None
    /\ explanation = None
    /\ explanations = <<>>
    /\ out_file = OldFile
    /\ writes = 0
    /\ exit_code = -1

WordIdle ==
    /\ words = <<>>
    /\ scale_x = <<1, 1>>
    /\ scale_y = <<1, 1>>

CliIdle ==
    /\ pdfs = <<>>
    /\ year_index = 0
    /\ label_files = {}
    /\ printed = <<>>

TextIdle ==
    /\ input = <<>>
    /\ streams = <<>>
    /\ text = <<>>
    /\ section = <<>>
    /\ matches = <<>>
    /\ solutions = <<>>
    /\ error = ""
    /\ written = OldFile

InitCrop ==
    /\ CliIdle
    /\ WordIdle
    /\ script = "crop"
    /\ pc = "start"
    /\ image_size \in ImageSizes
    /\ \E n \in 0..MaxLabels :
          \E f \in [1..n -> Points(image_size)] :
              label_positions =
                  [i \in 1..n |-> [id |-> PageIds[i], left |-> f[i][1], top |-> f[i][2]]]
    /\ qid \in {PageIds[i] : i \in 1..(MaxLabels + 1)}
    /\ crop = <<>>
    /\ frame = NoFrame
    /\ ClusterIdle
    /\ GenIdle
    /\ TextIdle

\* compute_crop, early return: the ID has no detected label
CropFullPage ==
    /\ script = "crop" /\ pc = "start"
    /\ ~HasLabel(label_positions, qid)
    /\ frame' = compute_crop_frame(qid, label_positions, image_size)
    /\ crop' = frame'.result
    /\ pc' = "done"
    /\ UNCHANGED <<script, wordVars, cliVars, image_size, label_positions, qid, clusterVars, genVars, textVars>>

\* compute_crop for a labelled ID
CropLabelled ==
    /\ script = "crop" /\ pc = "start"
    /\ HasLabel(label_positions, qid)
    /\ frame' = compute_crop_frame(qid, label_positions, image_size)
    /\ crop' = frame'.result
    /\ pc' = "done"
    /\ UNCHANGED <<script, wordVars, cliVars, image_size, label_positions, qid, clusterVars, genVars, textVars>>

NextCrop == CropFullPage \/ CropLabelled

SpecCrop == InitCrop /\ [][NextCrop]_vars

CropDone == script = "crop" /\ pc = "done"

----------------------------------------------------------------------------
(* C1: the rectangle compute_crop returns lies inside the image:           *)
(* left >= 0, top >= 0, left + width <= image_w, top + height <= image_h.  *)
C1_Contained ==
    CropDone =>
        /\ RLe(R(0), crop[1])
        /\ RLe(R(0), crop[2])
        /\ RLe(RAdd(crop[1], crop[3]), R(image_size[1]))
        /\ RLe(RAdd(crop[2], crop[4]), R(image_size[2]))

(* C2 as stated: for a labelled ID the rectangle has width >= 140 and      *)
(* height >= 200, also when the label lies near the bottom edge.           *)
C2_MinSize ==
    (CropDone /\ frame.labelled) =>
        /\ RLe(R(min_crop_width), crop[3])
        /\ RLe(R(min_crop_height), crop[4])

(* C2 amended: for a labelled ID the width is >= 140, and the height is    *)
(* >= 200 unless fewer than 200 pixels lie between the crop top            *)
(* max(0, label top - 24) and the bottom of the image, in which case the   *)
(* height is exactly that remainder.                                       *)
C2_MinSizeClamped ==
    (CropDone /\ frame.labelled) =>
        LET current == LabelOf(label_positions, qid)
            top == RMax(R(0), RSub(current.top, R(padding_top)))
            remainder == RSub(R(image_size[2]), top)
        IN  /\ RLe(R(min_crop_width), crop[3])
            /\ IF RLe(R(min_crop_height), remainder)
               THEN RLe(R(min_crop_height), crop[4])
               ELSE REq(crop[4], remainder)

\* a labelled ID near the bottom edge, and one with room below it
C2_Witness ==
    /\ CropDone /\ frame.labelled
    /\ RLt(crop[4], R(min_crop_height))
    /\ image_size[2] >= 1400

C2_WitnessRoom ==
    /\ CropDone /\ frame.labelled
    /\ frame.next_index # 0
    /\ REq(crop[4], R(min_crop_height))

(* C10 as stated: in a single-member column the estimate is 25% of the     *)
(* page height, and the amount added to the target's top is at least 220   *)
(* and at most 55% of the page height, for every image height.             *)
SingleMember ==
    /\ CropDone /\ frame.labelled
    /\ Len(frame.column_items) = 1
    /\ frame.current_index = 1

C10_Fallback ==
    SingleMember =>
        /\ REq(frame.estimated, RScale(R(image_size[2]), 1, 4))
        /\ RLe(R(min_estimate), frame.added)
        /\ RLe(frame.added, RScale(R(image_size[2]), 11, 20))

(* C10 amended: in a single-member column the estimate is 25% of the page  *)
(* height; the amount added to the target's top is at most 55% of the page *)
(* height, and it is at least 220 when 55% of the page height is at least  *)
(* 220 - otherwise it is exactly 55% of the page height.                   *)
C10_FallbackCapped ==
    SingleMember =>
        LET cap == RScale(R(image_size[2]), 11, 20)
            scaled == RScale(RScale(R(image_size[2]), 1, 4), 27, 20)
        IN  /\ REq(frame.estimated, RScale(R(image_size[2]), 1, 4))
            /\ RLe(frame.added, cap)
            /\ IF RLe(R(min_estimate), cap)
               THEN RLe(R(min_estimate), frame.added) /\ RLe(scaled, frame.added)
               ELSE REq(frame.added, cap)
            /\ REq(frame.bottom,
                   RMin(R(image_size[2]),
                        RAdd(LabelOf(label_positions, qid).top, frame.added)))

\* a single-member column on a page lower than 400 pixels, where the cap wins
C10_Witness ==
    /\ SingleMember
    /\ RLt(frame.added, R(min_estimate))
    /\ Len(label_positions) > 1

----------------------------------------------------------------------------
(* cluster_columns on a label list and on a reordering of it.              *)

MaxShuffle == 4

\* left coordinates: ties, gaps of exactly the tolerance, and means that move
ClusterLefts == {R(0), R(90), R(135), R(170), Half(225)}

InitCluster ==
    /\ CliIdle
    /\ WordIdle
    /\ script = "cluster"
    /\ pc = "start"
    /\ \E n \in 0..MaxShuffle :
          \E f \in [1..n -> ClusterLefts] :
              \E p \in Permutations(1..n) :
                  /\ positions =
                        [i \in 1..n |-> [id |-> PageIds[i], left |-> f[i], top |-> R(10 * i)]]
                  /\ shuffled = [i \in 1..n |-> positions[p[i]]]
    /\ clusters = <<>>
    /\ clusters_shuffled = <<>>
    /\ CropIdle
    /\ GenIdle
    /\ TextIdle

ClusterOriginal ==
    /\ script = "cluster" /\ pc = "start"
    /\ clusters' = cluster_columns(positions)
    /\ pc' = "clustered"
    /\ UNCHANGED <<script, wordVars, cliVars, positions, shuffled, clusters_shuffled, cropVars, genVars, textVars>>

ClusterShuffled ==
    /\ script = "cluster" /\ pc = "clustered"
    /\ clusters_shuffled' = cluster_columns(shuffled)
    /\ pc' = "done"
    /\ UNCHANGED <<script, wordVars, cliVars, positions, shuffled, clusters, cropVars, genVars, textVars>>

NextCluster == ClusterOriginal \/ ClusterShuffled

SpecCluster == InitCluster /\ [][NextCluster]_vars

Members(cluster) == {cluster.items[i] : i \in 1..Len(cluster.items)}

(* C9: clustering a list and clustering any permutation of it give the     *)
(* same number of clusters, the same members in each cluster and the same  *)
(* cluster centers.                                                        *)
C9_OrderIndependent ==
    (script = "cluster" /\ pc = "done") =>
        /\ Len(clusters_shuffled) = Len(clusters)
        /\ \A k \in 1..Len(clusters) :
              /\ Members(clusters_shuffled[k]) = Members(clusters[k])
              /\ REq(clusters_shuffled[k].center, clusters[k].center)

\* a reordered list with two labels at the same left, falling in two columns
C9_Witness ==
    /\ script = "cluster" /\ pc = "done"
    /\ shuffled # positions
    /\ Len(clusters) >= 2
    /\ \E i, j \in 1..Len(positions) :
          /\ i < j
          /\ positions[i].left = positions[j].left
          /\ \E a, b \in 1..Len(shuffled) :
                a > b /\ shuffled[a] = positions[i] /\ shuffled[b] = positions[j]

----------------------------------------------------------------------------
(* generate_explanations_from_pdf.py: main and the two remote calls.       *)

MaxPages == 1
QuestionsPerPage == 2

\* the question IDs main walks through on a page (a prefix of the real list)
by_page(p) == SubSeq(questions_by_page[p], 1, QuestionsPerPage)

\* story strings: empty, whitespace only, and with text
Stories == {<<>>, <<" ">>, <<"s", " ">>}

\* what parse_json_output can return: an object with or without "story", or
\* JSON that is no object
Dict(st) == [kind |-> "dict", has_story |-> TRUE, story |-> st]
DictNoStory == [kind |-> "dict", has_story |-> FALSE, story |-> <<>>]
NotDict == [kind |-> "list", has_story |-> FALSE, story |-> <<>>]
JsonValues == {Dict(st) : st \in Stories} \cup {DictNoStory, NotDict}

\* what one HTTP request can come back with: an HTTP error status, another
\* transport error (URLError, timeout, broken body), or a 200 whose output
\* text is empty, is no JSON, or is JSON
Responses ==
    {[status |-> "http_error", text |-> "", value |-> None],
     [status |-> "net_error", text |-> "", value |-> None],
     [status |-> "ok", text |-> "empty", value |-> None],
     [status |-> "ok", text |-> "garbage", value |-> None]}
    \cup {[status |-> "ok", text |-> "json", value |-> v] : v \in JsonValues}

\* str.strip()
RECURSIVE LStrip(_)
LStrip(st) == IF st # <<>> /\ IsSpace(st[1]) THEN LStrip(Tail(st)) ELSE st

RECURSIVE RStrip(_)
RStrip(st) ==
    IF st # <<>> /\ IsSpace(st[Len(st)])
    THEN RStrip(SubSeq(st, 1, Len(st) - 1))
    ELSE st

Strip(st) == RStrip(LStrip(st))

\* the story as it is, not stripped
StoryOfUnstripped(e) == IF e.has_story THEN e.story ELSE <<>>

\* explanation.get('story', '').strip(), for a dict
StoryOf(e) == Strip(IF e.has_story THEN e.story ELSE <<>>)

InitGen ==
    /\ CliIdle
    /\ WordIdle
    /\ script = "gen"
    /\ pc = "start"
    /\ argv_len \in 1..3
    /\ pdf_exists \in BOOLEAN
    /\ year_known \in BOOLEAN
    /\ api_key \in BOOLEAN
    /\ num_pages \in 0..MaxPages
    /\ page_num = 0
    /\ q_index = 0
    /\ attempt = 0
    /\ log = <<>>
    /\ accepted = None
    /\ explanation = None
    /\ explanations = <<>>
    /\ out_file = OldFile
    /\ writes = 0
    /\ exit_code = -1
    /\ CropIdle
    /\ ClusterIdle
    /\ TextIdle

Gen(at) == script = "gen" /\ pc = at

\* an uncaught exception, or sys.exit(1)
Die ==
    /\ pc' = "exit"
    /\ exit_code' = 1

\* a handler that retries once more
RaiseRetryTwice ==
    IF attempt <= 2
    THEN /\ attempt' = attempt + 1
         /\ pc' = "attempt"
         /\ exit_code' = exit_code
    ELSE /\ Die
         /\ attempt' = attempt

\* an exception raised inside openai_explain_question: caught by main in the
\* try block (attempt 1), uncaught in the except block (attempt 2)
Raise ==
    IF attempt = 1
    THEN /\ attempt' = 2
         /\ pc' = "attempt"
         /\ exit_code' = exit_code
    ELSE /\ Die
         /\ attempt' = attempt

\* len(sys.argv) < 3, missing file, or no answer key: message and sys.exit(1)
GenRejectArgs ==
    /\ Gen("start")
    /\ argv_len < 3 \/ ~pdf_exists \/ ~year_known
    /\ printed' = Append(printed, IF argv_len < 3 THEN "Usage"
                                  ELSE IF ~pdf_exists THEN "File not found"
                                  ELSE "No answer key for year")
    /\ Die
    /\ UNCHANGED <<script, wordVars, pdfs, year_index, label_files, cropVars, clusterVars, textVars, argv_len, pdf_exists, year_known,
                   api_key, num_pages, page_num, q_index, attempt, log, accepted,
                   explanation, explanations, out_file, writes>>

\* render_pages succeeded; explanations = {} and the loop over by_page starts
GenRenderPages ==
    /\ Gen("start")
    /\ argv_len >= 3 /\ pdf_exists /\ year_known
    /\ page_num' = 1
    /\ pc' = "page"
    /\ UNCHANGED <<script, wordVars, cliVars, cropVars, clusterVars, textVars, argv_len, pdf_exists, year_known,
                   api_key, num_pages, q_index, attempt, log, accepted,
                   explanation, explanations, out_file, writes, exit_code>>

\* a subprocess run with check=True fails (pdftoppm, sips), or the page size
\* or bbox output cannot be read
GenToolFails ==
    /\ script = "gen"
    /\ \/ pc = "start" /\ argv_len >= 3 /\ pdf_exists /\ year_known
       \/ pc = "page" /\ page_num <= Len(questions_by_page) /\ page_num <= num_pages
       \/ pc = "question" /\ q_index <= Len(by_page(page_num))
    /\ Die
    /\ UNCHANGED <<script, wordVars, cliVars, cropVars, clusterVars, textVars, argv_len, pdf_exists, year_known,
                   api_key, num_pages, page_num, q_index, attempt, log, accepted,
                   explanation, explanations, out_file, writes>>

\* `if page_num > len(pages): continue`
GenSkipPage ==
    /\ Gen("page")
    /\ page_num <= Len(questions_by_page)
    /\ page_num > num_pages
    /\ page_num' = page_num + 1
    /\ UNCHANGED <<script, wordVars, cliVars, pc, cropVars, clusterVars, textVars, argv_len, pdf_exists, year_known,
                   api_key, num_pages, q_index, attempt, log, accepted,
                   explanation, explanations, out_file, writes, exit_code>>

\* get_image_size, parse_pdf_bbox, extract_label_positions for the page
GenOpenPage ==
    /\ Gen("page")
    /\ page_num <= Len(questions_by_page)
    /\ page_num <= num_pages
    /\ q_index' = 1
    /\ pc' = "question"
    /\ UNCHANGED <<script, wordVars, cliVars, cropVars, clusterVars, textVars, argv_len, pdf_exists, year_known,
                   api_key, num_pages, page_num, attempt, log, accepted,
                   explanation, explanations, out_file, writes, exit_code>>

\* the crop (or the whole page, for an unlabelled qid) is ready; the try
\* block is entered
GenPrepareImage ==
    /\ Gen("question")
    /\ q_index <= Len(by_page(page_num))
    /\ attempt' = 1
    /\ log' = <<>>
    /\ accepted' = None
    /\ explanation' = None
    /\ pc' = "attempt"
    /\ UNCHANGED <<script, wordVars, cliVars, cropVars, clusterVars, textVars, argv_len, pdf_exists, year_known,
                   api_key, num_pages, page_num, q_index, explanations, out_file,
                   writes, exit_code>>

\* the page's qids are done
GenPageDone ==
    /\ Gen("question")
    /\ q_index > Len(by_page(page_num))
    /\ page_num' = page_num + 1
    /\ pc' = "page"
    /\ UNCHANGED <<script, wordVars, cliVars, cropVars, clusterVars, textVars, argv_len, pdf_exists, year_known,
                   api_key, num_pages, q_index, attempt, log, accepted,
                   explanation, explanations, out_file, writes, exit_code>>

\* openai_explain_question: OPENAI_API_KEY not set
GenNoApiKey ==
    /\ Gen("attempt")
    /\ ~api_key
    /\ Raise
    /\ UNCHANGED <<script, wordVars, cliVars, cropVars, clusterVars, textVars, argv_len, pdf_exists, year_known,
                   api_key, num_pages, page_num, q_index, log, accepted,
                   explanation, explanations, out_file, writes>>

\* what openai_explain_question does with a 200 response: extract_output_text,
\* the empty check, parse_json_output
ImageResponseOk(r) ==
    IF r.text = "json"
    THEN /\ explanation' = r.value
         /\ accepted' = r.value
         /\ pc' = "check_story"
         /\ UNCHANGED <<attempt, exit_code>>
    ELSE /\ Raise
         /\ UNCHANGED <<explanation, accepted>>

\* openai_explain_question: the first request, with response_format
GenSendFirst ==
    /\ Gen("attempt")
    /\ api_key
    /\ \E r \in Responses :
          /\ log' = Append(log, [req |-> "image", first |-> TRUE, status |-> r.status])
          /\ CASE r.status = "http_error" ->
                     /\ pc' = "inner_retry"
                     /\ UNCHANGED <<attempt, exit_code, explanation, accepted>>
               [] r.status = "net_error" ->
                     /\ Raise
                     /\ UNCHANGED <<explanation, accepted>>
               [] OTHER -> ImageResponseOk(r)
    /\ UNCHANGED <<script, wordVars, cliVars, cropVars, clusterVars, textVars, argv_len, pdf_exists, year_known,
                   api_key, num_pages, page_num, q_index, explanations, out_file,
                   writes>>

\* openai_explain_question, `except HTTPError`: the request again, without
\* response_format
GenSendSecond ==
    /\ Gen("inner_retry")
    /\ \E r \in Responses :
          /\ log' = Append(log, [req |-> "image", first |-> FALSE, status |-> r.status])
          /\ IF r.status = "ok"
             THEN ImageResponseOk(r)
             ELSE /\ Raise
                  /\ UNCHANGED <<explanation, accepted>>
    /\ UNCHANGED <<script, wordVars, cliVars, cropVars, clusterVars, textVars, argv_len, pdf_exists, year_known,
                   api_key, num_pages, page_num, q_index, explanations, out_file,
                   writes>>

\* `if not explanation.get('story', '').strip()`: .get on a non-dict raises
GenCheckStory ==
    /\ Gen("check_story")
    /\ IF explanation.kind # "dict"
       THEN Die
       ELSE /\ pc' = IF StoryOf(explanation) = <<>> THEN "fallback" ELSE "record"
            /\ exit_code' = exit_code
    /\ UNCHANGED <<script, wordVars, cliVars, cropVars, clusterVars, textVars, argv_len, pdf_exists, year_known,
                   api_key, num_pages, page_num, q_index, attempt, log, accepted,
                   explanation, explanations, out_file, writes>>

\* tesseract on the crop, then openai_explain_from_text: one request, nothing
\* caught
GenFallback ==
    /\ Gen("fallback")
    /\ \E r \in Responses :
          /\ log' = Append(log, [req |-> "text", first |-> TRUE, status |-> r.status])
          /\ IF r.status = "ok" /\ r.text = "json"
             THEN /\ explanation' = r.value
                  /\ pc' = "record"
                  /\ exit_code' = exit_code
             ELSE /\ Die
                  /\ explanation' = explanation
    /\ UNCHANGED <<script, wordVars, cliVars, cropVars, clusterVars, textVars, argv_len, pdf_exists, year_known,
                   api_key, num_pages, page_num, q_index, attempt, accepted,
                   explanations, out_file, writes>>

CurrentQid == by_page(page_num)[q_index]

\* explanations[qid] = explanation
GenRecord ==
    /\ Gen("record")
    /\ explanations' =
          [q \in DOMAIN explanations \cup {CurrentQid} |->
              IF q = CurrentQid THEN explanation ELSE explanations[q]]
    /\ pc' = "recorded"
    /\ UNCHANGED <<script, wordVars, cliVars, cropVars, clusterVars, textVars, argv_len, pdf_exists, year_known,
                   api_key, num_pages, page_num, q_index, attempt, log, accepted,
                   explanation, out_file, writes, exit_code>>

\* `for qid in qids`: on to the next qid
GenNextQuestion ==
    /\ Gen("recorded")
    /\ q_index' = q_index + 1
    /\ pc' = "question"
    /\ UNCHANGED <<script, wordVars, cliVars, cropVars, clusterVars, textVars, argv_len, pdf_exists, year_known,
                   api_key, num_pages, page_num, attempt, log, accepted,
                   explanation, explanations, out_file, writes, exit_code>>

\* a write at the head of either loop
WritePointInLoop == pc \in {"page", "question"}

\* where main writes the file: after the loop over by_page
WritePoint == pc = "page" /\ page_num > Len(questions_by_page)

\* out_path.write_text(json.dumps(explanations, ...)) and the normal end
GenWrite ==
    /\ script = "gen"
    /\ WritePoint
    /\ out_file' = explanations
    /\ writes' = writes + 1
    /\ pc' = "exit"
    /\ exit_code' = 0
    /\ UNCHANGED <<script, wordVars, cliVars, cropVars, clusterVars, textVars, argv_len, pdf_exists, year_known,
                   api_key, num_pages, page_num, q_index, attempt, log, accepted,
                   explanation, explanations>>

NextGen ==
    \/ GenRejectArgs
    \/ GenRenderPages
    \/ GenToolFails
    \/ GenSkipPage
    \/ GenOpenPage
    \/ GenPrepareImage
    \/ GenPageDone
    \/ GenNoApiKey
    \/ GenSendFirst
    \/ GenSendSecond
    \/ GenCheckStory
    \/ GenFallback
    \/ GenRecord
    \/ GenNextQuestion
    \/ GenWrite

SpecGen == InitGen /\ [][NextGen]_vars

----------------------------------------------------------------------------
(* The requests sent for the current question ID.                          *)

ImageRequests == {i \in 1..Len(log) : log[i].req = "image"}
TextRequests == {i \in 1..Len(log) : log[i].req = "text"}
IsBlank(st) == \A i \in 1..Len(st) : st[i] = " "
\* an object whose story is empty, whitespace only or missing
BlankStory(e) == e.kind = "dict" /\ (e.has_story => IsBlank(e.story))
\* every request so far was image-based and failed in transport
AllImageFailed ==
    /\ log # <<>>
    /\ \A i \in 1..Len(log) :
          log[i].req = "image" /\ log[i].status \in {"http_error", "net_error"}
\* the first requests that came back with an HTTP error status
HttpFirst == {i \in 1..Len(log) : log[i].first /\ log[i].status = "http_error"}
\* the requests whose failure ended a call of openai_explain_question
EndedCall ==
    {i \in 1..Len(log) :
        log[i].status # "ok" /\ (~log[i].first \/ log[i].status = "net_error")}
Failed == Gen("exit") /\ exit_code = 1

(* C3: when a result is recorded for a question ID, exactly one OCR-based  *)
(* text request was sent for it if the accepted image-based response had   *)
(* an empty, whitespace-only or missing story, and none if the story was   *)
(* non-empty; no ID ever gets a second text request, and none is sent      *)
(* after an accepted non-empty story.                                      *)
C3_Fallback ==
    script = "gen" =>
        /\ Cardinality(TextRequests) <= 1
        /\ TextRequests # {} => BlankStory(accepted)
        /\ pc \in {"record", "recorded"} =>
              /\ accepted.kind = "dict"
              /\ Cardinality(TextRequests) = IF BlankStory(accepted) THEN 1 ELSE 0
        /\ pc = "recorded" => CurrentQid \in DOMAIN explanations

\* the second question of a page recorded after a whitespace-only story and
\* one text request
C3_Witness ==
    /\ Gen("recorded")
    /\ q_index = 2
    /\ accepted.has_story /\ accepted.story = <<" ">>
    /\ Cardinality(TextRequests) = 1

C3_WitnessNoFallback ==
    /\ Gen("recorded")
    /\ ~BlankStory(accepted)
    /\ TextRequests = {}

(* C4 as stated: when every image-based request for a question ID fails    *)
(* with a transport error (an HTTP error status included), exactly two     *)
(* requests are sent and the run ends with an error; never a third.        *)
C4_TwoRequests ==
    (script = "gen" /\ AllImageFailed) =>
        /\ Len(log) <= 2
        /\ Failed => Len(log) = 2

(* C4 amended: when every image-based request for a question ID fails with *)
(* a transport error, openai_explain_question is called exactly twice (the *)
(* original and one retry) and the run then ends with an error; each call  *)
(* sends one request, and a second one, without response_format, when its  *)
(* first comes back with an HTTP error status. So two requests are sent    *)
(* when the failures are not HTTP statuses, four when all are, and never a *)
(* fifth.                                                                  *)
C4_TwoCalls ==
    (script = "gen" /\ AllImageFailed) =>
        /\ Cardinality(EndedCall) <= 2
        /\ Len(log) <= 4
        /\ Cardinality(EndedCall) = 2 <=> Failed
        /\ Failed => Len(log) = 2 + Cardinality(HttpFirst)
        /\ (Failed /\ \A i \in 1..Len(log) : log[i].status = "net_error")
              => Len(log) = 2
        /\ (Failed /\ \A i \in 1..Len(log) : log[i].status = "http_error")
              => Len(log) = 4

\* four requests, each answered with an HTTP error status, then the error exit
C4_Witness ==
    /\ Failed
    /\ AllImageFailed
    /\ Len(log) = 4
    /\ \A i \in 1..Len(log) : log[i].status = "http_error"

(* C5: when the accepted image-based response has an empty story and the   *)
(* text-only fallback response is a JSON object whose story is empty or    *)
(* missing, no explanation is recorded for the question ID (the run        *)
(* ends with an error instead).                                            *)
C5_FatalIfUnusable ==
    (/\ script = "gen"
     /\ BlankStory(accepted)
     /\ TextRequests # {}
     /\ log[Len(log)].status = "ok"
     /\ BlankStory(explanation))
        => /\ CurrentQid \notin DOMAIN explanations
           /\ pc # "recorded"

----------------------------------------------------------------------------
(* Regular-expression matching of the solution extractors. A position is a *)
(* 1-based index; a match is reported by the index after it, 0 for none.   *)

\* \s* at i
RECURSIVE SkipSpaces(_, _)
SkipSpaces(t, i) == IF i <= Len(t) /\ IsSpace(t[i]) THEN SkipSpaces(t, i + 1) ELSE i

\* \s* continuing a match that ended before i
Spaces(t, i) == IF i = 0 THEN 0 ELSE SkipSpaces(t, i)

\* spaced_pattern(raw) matched at i under re.IGNORECASE: the characters of raw
\* with \s* between them
RECURSIVE MatchSpaced(_, _, _)
MatchSpaced(t, i, raw) ==
    IF i = 0 THEN 0
    ELSE IF raw = <<>> THEN i
    ELSE IF i <= Len(t) /\ Lower(t[i]) = Lower(raw[1])
         THEN IF Len(raw) = 1 THEN i + 1
              ELSE MatchSpaced(t, SkipSpaces(t, i + 1), Tail(raw))
         ELSE 0

Klassenstufen ==
    <<"K", "l", "a", "s", "s", "e", "n", "s", "t", "u", "f", "e", "n">>

\* spaced('Klassenstufen') \s* spaced(lo) \s* (?:spaced('und')|spaced('bis'))
\* \s* spaced(hi), matched at i
\* (?:spaced('und')|spaced('bis')) continuing a match that ended before i
UndOrBis(t, i) ==
    IF MatchSpaced(t, i, <<"u", "n", "d">>) # 0
    THEN MatchSpaced(t, i, <<"u", "n", "d">>)
    ELSE MatchSpaced(t, i, <<"b", "i", "s">>)

MatchHeader(t, i, lo, hi) ==
    MatchSpaced(t,
                Spaces(t, UndOrBis(t, Spaces(t, MatchSpaced(t, i, Klassenstufen \o lo)))),
                hi)

Least(positions_) == CHOOSE p \in positions_ : \A q \in positions_ : p <= q

\* pattern.search(t, from), the leftmost match: <<start, index after the
\* match>>, <<0, 0>> for None
SearchHeader(t, from, lo, hi) ==
    LET starts == {p \in from..Len(t) : MatchHeader(t, p, lo, hi) # 0}
    IN  IF starts = {} THEN <<0, 0>>
        ELSE <<Least(starts), MatchHeader(t, Least(starts), lo, hi)>>

NoStart == "Could not find section for Klassenstufen 7 und 8"
NoEnd == "Could not find end section for Klassenstufen 9 und 10"
NoSolutions == "No solutions found in section"

\* find_section: the section, or the ValueError it raises
find_section(t) ==
    LET start_match == SearchHeader(t, 1, <<"7">>, <<"8">>)
        end_match == SearchHeader(t, start_match[2], <<"9">>, <<"1", "0">>)
    IN  IF start_match[1] = 0 THEN [error |-> NoStart, section |-> <<>>]
        ELSE IF end_match[1] = 0 THEN [error |-> NoEnd, section |-> <<>>]
        ELSE [error |-> "", section |-> SubSeq(t, start_match[2], end_match[1] - 1)]

\* the index after the run of digits at i (i itself when there is none)
RECURSIVE DigitsEnd(_, _)
DigitsEnd(t, i) == IF i <= Len(t) /\ IsDigit(t[i]) THEN DigitsEnd(t, i + 1) ELSE i

\* \d+ at i
Digits(t, i) == IF DigitsEnd(t, i) = i THEN 0 ELSE DigitsEnd(t, i)

\* (?:e\s*)? continuing a match that ended before i
OptionalE(t, i) ==
    IF i # 0 /\ i <= Len(t) /\ Lower(t[i]) = "e" THEN SkipSpaces(t, i + 1) ELSE i

\* [:\.] continuing a match that ended before i
Punct(t, i) == IF i # 0 /\ i <= Len(t) /\ t[i] \in {":", "."} THEN i + 1 ELSE 0

\* ocr_translate_solutions.py: l\s*o\s*(?:e\s*)?s\s*u\s*n\s*g
LosungOcr(t, i) ==
    MatchSpaced(t, OptionalE(t, Spaces(t, MatchSpaced(t, i, <<"l", "o">>))),
                <<"s", "u", "n", "g">>)

\* extract_solutions.py: spaced_pattern('Lösung')
LosungEmb(t, i) == MatchSpaced(t, i, <<"L", "ö", "s", "u", "n", "g">>)

Losung(t, i, ocr) == IF ocr THEN LosungOcr(t, i) ELSE LosungEmb(t, i)

\* \d+\s*<losung>\s*[:\.] at i
HeadAt(t, i, ocr) ==
    Punct(t, Spaces(t, Losung(t, Spaces(t, Digits(t, i)), ocr)))

\* where the lookahead (?=\d+\s*<losung>\s*[:\.]|$) holds
Lookahead(t, e, ocr) ==
    e > Len(t) \/ (e = Len(t) /\ t[e] = "\n") \/ HeadAt(t, e, ocr) # 0

\* (.*?)(?=...) from b: the index after the lazy group, 0 when a newline
\* stops the dot first; `ocr` also stands for re.DOTALL, which only that
\* script sets
BodyEnd(t, b, ocr) ==
    IF b = 0 THEN 0
    ELSE LET e == Least({q \in b..(Len(t) + 1) : Lookahead(t, q, ocr)})
         IN  IF ~ocr /\ \E q \in b..(e - 1) : t[q] = "\n" THEN 0 ELSE e

\* the whole pattern at i: the index after the match
MatchItem(t, i, ocr) == BodyEnd(t, Spaces(t, HeadAt(t, i, ocr)), ocr)

\* pattern.findall(section): the (num_str, solution) pairs of the leftmost
\* match and of the matches after it
RECURSIVE FindAll(_, _, _)
FindAll(t, from, ocr) ==
    LET starts == {p \in from..Len(t) : MatchItem(t, p, ocr) # 0}
    IN  IF starts = {} THEN <<>>
        ELSE <<[num_str |-> SubSeq(t, Least(starts), DigitsEnd(t, Least(starts)) - 1),
                solution |-> SubSeq(t, SkipSpaces(t, HeadAt(t, Least(starts), ocr)),
                                    MatchItem(t, Least(starts), ocr) - 1)]>>
             \o FindAll(t, MatchItem(t, Least(starts), ocr), ocr)

\* int(num_str)
RECURSIVE ParseInt(_)
ParseInt(ds) ==
    IF ds = <<>> THEN 0
    ELSE 10 * ParseInt(SubSeq(ds, 1, Len(ds) - 1)) + DigitValue(ds[Len(ds)])

\* re.sub(r'\s+', ' ', st): of every run of whitespace the first character
\* stays, as a space
Collapse(st) ==
    LET Stays(i) == ~IsSpace(st[i]) \/ i = 1 \/ ~IsSpace(st[i - 1])
        kept == SelectSeq([i \in 1..Len(st) |-> i], Stays)
    IN  [k \in 1..Len(kept) |-> IF IsSpace(st[kept[k]]) THEN " " ELSE st[kept[k]]]

AIds == <<"A1", "A2", "A3", "A4", "A5", "A6", "A7", "A8", "A9", "A10">>
BIds == <<"B1", "B2", "B3", "B4", "B5", "B6", "B7", "B8", "B9", "B10">>
CIds == <<"C1", "C2", "C3", "C4", "C5", "C6", "C7", "C8", "C9", "C10">>

Put(d, k, v) == [q \in DOMAIN d \cup {k} |-> IF q = k THEN v ELSE d[q]]

\* ocr_translate_solutions.py, extract_solutions: the qid of an item number
QidOcrSameLetter(num) ==
    IF num <= 10 THEN AIds[num]
    ELSE IF num <= 20 THEN AIds[num - 10]
    ELSE CIds[num - 20]

QidOcr(num) ==
    IF num <= 10 THEN AIds[num]
    ELSE IF num <= 20 THEN BIds[num - 10]
    ELSE CIds[num - 20]

\* ocr_translate_solutions.py, extract_solutions: the loop over matches
RECURSIVE BuildOcr(_, _)
BuildOcr(ms, explanations_) ==
    IF ms = <<>> THEN explanations_
    ELSE LET num == ParseInt(ms[1].num_str)
         IN  IF ~(1 <= num /\ num <= 30) THEN BuildOcr(Tail(ms), explanations_)
             ELSE BuildOcr(Tail(ms),
                           Put(explanations_, QidOcr(num),
                               Strip(Collapse(ms[1].solution))))

\* extract_solutions.py, main: the qid of an item number
QidEmb(num) ==
    IF num <= 10 THEN AIds[num]
    ELSE IF num <= 20 THEN BIds[num - 10]
    ELSE CIds[num - 20]

\* extract_solutions.py, main: the loop over matches
RECURSIVE BuildEmb(_, _)
BuildEmb(ms, explanations_) ==
    IF ms = <<>> THEN explanations_
    ELSE LET num == ParseInt(ms[1].num_str)
         IN  IF ~(1 <= num /\ num <= 30) THEN BuildEmb(Tail(ms), explanations_)
             ELSE BuildEmb(Tail(ms),
                           Put(explanations_, QidEmb(num),
                               Collapse(Strip(ms[1].solution))))

\* ocr_translate_solutions.py: extract_solutions, or the ValueError it raises
extract_solutions(section_) ==
    LET ms == FindAll(section_, 1, TRUE)
    IN  IF ms = <<>>
        THEN [error |-> NoSolutions, matches |-> ms, explanations |-> <<>>]
        ELSE [error |-> "", matches |-> ms, explanations |-> BuildOcr(ms, <<>>)]

----------------------------------------------------------------------------
(* ocr_translate_solutions.py: find_section, then extract_solutions, on    *)
(* OCR text.                                                               *)

MaxItems == 2

Dots == <<".", ".", ".">>
Headers78 ==
    {<<"K", "l", "a", "s", "s", "e", "n", "s", "t", "u", "f", "e", "n", " ", "7", " ", "u", "n", "d", " ", "8">>,
     <<"K", "L", "A", "S", "S", "E", "N", " ", "S", "T", "U", "F", "E", "N", " ", "7", " ", "b", "i", "s", " ", "8">>,
     <<>>}
Headers910 ==
    {<<"K", "l", "a", "s", "s", "e", "n", "s", "t", "u", "f", "e", "n", " ", "9", " ", "u", "n", "d", " ", "1", "0">>,
     <<>>}
ItemNums == {<<"1">>, <<"2">>, <<"1", "2">>, <<"3", "1">>}
Markers ==
    {<<"L", "ö", "s", "u", "n", "g", ":">>,
     <<"L", "o", "s", "u", "n", "g", ":">>,
     <<"L", "o", "e", "s", "u", "n", "g", ".">>,
     <<"L", "Ö", "S", "U", "N", "G", " ", ":">>}
Bodies ==
    <<<<"B", "e", "c", "a", "u", "s", "e", " ", "2", "+", "2", "=", "4", ".">>,
      <<"C", "o", "u", "n", "t", " ", "t", "h", "e", " ", "s", "h", "a", "p", "e", "s", ".">>,
      <<"A", "d", "d", " ", "t", "h", "e", "m", " ", "u", "p", ".">>>>
BodyAt(i) == Bodies[((i - 1) % Len(Bodies)) + 1]
Tails == {<<>>, <<".", ".", ".", " ">>}

\* the item lists: one spelling of the marker per list, item i carries body i
ItemLists(nums, markers) ==
    UNION {{[i \in 1..Len(f) |-> [num |-> f[i], marker |-> m, body |-> BodyAt(i)]] :
               f \in UNION {[1..n -> nums] : n \in 0..MaxItems}} : m \in markers}

RECURSIVE RenderItems(_)
RenderItems(items) ==
    IF items = <<>> THEN <<>>
    ELSE items[1].num \o <<" ">> \o items[1].marker \o <<" ">> \o items[1].body
             \o <<" ">> \o RenderItems(Tail(items))

\* "...<header 7-8> ... <items> <tail><header 9-10> ..."
OcrText(in) ==
    Dots \o in.h78 \o <<" ">> \o Dots \o <<" ">> \o RenderItems(in.items)
        \o in.tail \o in.h910 \o <<" ">> \o Dots

InitOcr ==
    /\ CliIdle
    /\ WordIdle
    /\ script = "ocr"
    /\ pc = "start"
    /\ input \in [h78 : Headers78, items : ItemLists(ItemNums, Markers),
                  tail : Tails, h910 : Headers910]
    /\ text = OcrText(input)
    /\ streams = <<>>
    /\ section = <<>>
    /\ matches = <<>>
    /\ solutions = <<>>
    /\ error = ""
    /\ written = OldFile
    /\ CropIdle
    /\ ClusterIdle
    /\ GenIdle

\* section = find_section(text)
OcrFindSection ==
    /\ script = "ocr" /\ pc = "start"
    /\ \E found \in {find_section(text)} :
          /\ found.error = ""
          /\ section' = found.section
    /\ pc' = "section"
    /\ UNCHANGED <<script, wordVars, cliVars, cropVars, clusterVars, genVars, input, streams, text,
                   matches, solutions, error, written>>

\* find_section raises ValueError: a header is missing
OcrFindSectionFails ==
    /\ script = "ocr" /\ pc = "start"
    /\ \E found \in {find_section(text)} :
          /\ found.error # ""
          /\ error' = found.error
    /\ pc' = "exit"
    /\ UNCHANGED <<script, wordVars, cliVars, cropVars, clusterVars, genVars, input, streams, text,
                   section, matches, solutions, written>>

\* explanations_de = extract_solutions(section)
OcrExtractSolutions ==
    /\ script = "ocr" /\ pc = "section"
    /\ \E found \in {extract_solutions(section)} :
          /\ found.error = ""
          /\ matches' = found.matches
          /\ solutions' = found.explanations
    /\ pc' = "done"
    /\ UNCHANGED <<script, wordVars, cliVars, cropVars, clusterVars, genVars, input, streams, text,
                   section, error, written>>

\* extract_solutions raises ValueError: no match
OcrExtractFails ==
    /\ script = "ocr" /\ pc = "section"
    /\ \E found \in {extract_solutions(section)} :
          /\ found.error # ""
          /\ error' = found.error
    /\ pc' = "exit"
    /\ UNCHANGED <<script, wordVars, cliVars, cropVars, clusterVars, genVars, input, streams, text,
                   section, matches, solutions, written>>

NextOcr ==
    \/ OcrFindSection
    \/ OcrFindSectionFails
    \/ OcrExtractSolutions
    \/ OcrExtractFails

SpecOcr == InitOcr /\ [][NextOcr]_vars

\* the question ID of item number n: letter A for 1..10, B for 11..20,
\* C for 21..30, and index ((n-1) mod 10)+1
ExpectedQid(n) ==
    (IF n <= 10 THEN AIds ELSE IF n <= 20 THEN BIds ELSE CIds)[((n - 1) % 10) + 1]

ItemNumber(in, i) == ParseInt(in.items[i].num)

\* both headers and one or more '<n> Lösung: <text>' items, n in 1..30
LoesungItems(in) ==
    /\ in.h78 # <<>> /\ in.h910 # <<>>
    /\ in.items # <<>>
    /\ \A i \in 1..Len(in.items) :
          /\ in.items[i].marker = <<"L", "ö", "s", "u", "n", "g", ":">>
          /\ ItemNumber(in, i) \in 1..30
          /\ \A j \in 1..Len(in.items) : i # j => ItemNumber(in, i) # ItemNumber(in, j)

(* C6: on OCR text with both headers and '<n> Lösung: <text>' items        *)
(* between them, find_section then extract_solutions yields one entry per  *)
(* item, keyed by the question ID of n, with the item's text as value      *)
(* ('1 Lösung: Because 2+2=4. 2 Lösung: Count the shapes.' gives           *)
(* {A1: 'Because 2+2=4.', A2: 'Count the shapes.'}). The value of the last *)
(* item is compared only when nothing stands between it and the 9-10       *)
(* header.                                                                 *)
C6_EndToEnd ==
    (script = "ocr" /\ pc \in {"done", "exit"} /\ LoesungItems(input)) =>
        /\ pc = "done"
        /\ error = ""
        /\ DOMAIN solutions = {ExpectedQid(ItemNumber(input, i)) : i \in 1..Len(input.items)}
        /\ \A i \in 1..Len(input.items) :
              (i < Len(input.items) \/ input.tail = <<>>) =>
                  solutions[ExpectedQid(ItemNumber(input, i))] = input.items[i].body

----------------------------------------------------------------------------
(* extract_solutions.py: extract_text_from_pdf, then main, on the streams  *)
(* of a PDF file. A byte is the character it is in Latin-1.                *)

\* the bytes [\x09\x0A\x0D\x20-\x7E]; the grave accent \x60, which no
\* input holds, is left out
KeptBytes ==
    {"\t", "\n", "\r",
     " ", "!", "\"", "#", "$", "%", "&", "'", "(", ")", "*", "+",
     ",", "-", ".", "/", "0", "1", "2", "3", "4", "5", "6", "7",
     "8", "9", ":", ";", "<", "=", ">", "?", "@", "A", "B", "C",
     "D", "E", "F", "G", "H", "I", "J", "K", "L", "M", "N", "O",
     "P", "Q", "R", "S", "T", "U", "V", "W", "X", "Y", "Z", "[",
     "\\", "]", "^", "_", "a", "b", "c", "d", "e", "f", "g",
     "h", "i", "j", "k", "l", "m", "n", "o", "p", "q", "r", "s",
     "t", "u", "v", "w", "x", "y", "z", "{", "|", "}", "~"}

\* a parenthesised literal from i, just after its "(": <<index after it, buf>>
RECURSIVE ScanLiteral(_, _, _, _)
ScanLiteral(ds, i, depth, buf) ==
    IF ~(i <= Len(ds) /\ depth > 0) THEN <<i, buf>>
    ELSE IF ds[i] = "\\" /\ i + 1 <= Len(ds)
         THEN ScanLiteral(ds, i + 2, depth, Append(buf, ds[i + 1]))
    ELSE IF ds[i] = "(" THEN ScanLiteral(ds, i + 1, depth + 1, Append(buf, ds[i]))
    ELSE IF ds[i] = ")"
         THEN IF depth = 1 THEN <<i + 1, buf>>
              ELSE ScanLiteral(ds, i + 1, depth - 1, Append(buf, ds[i]))
    ELSE ScanLiteral(ds, i + 1, depth, Append(buf, ds[i]))

\* the literal strings of one decompressed stream, appended to texts
RECURSIVE Literals(_, _, _)
Literals(ds, i, texts) ==
    LET opens == {p \in i..Len(ds) : ds[p] = "("}
    IN  IF opens = {} THEN texts
        ELSE LET lit == ScanLiteral(ds, Least(opens) + 1, 1, <<>>)
             IN  Literals(ds, lit[1],
                          IF lit[2] # <<>> THEN Append(texts, lit[2]) ELSE texts)

\* the loop over the streams; one that zlib cannot decompress is skipped
RECURSIVE StreamTexts(_, _)
StreamTexts(ss, texts) ==
    IF ss = <<>> THEN texts
    ELSE IF ~ss[1].inflates THEN StreamTexts(Tail(ss), texts)
    ELSE StreamTexts(Tail(ss), Literals(ss[1].data, 1, texts))

\* b"\n".join(texts)
RECURSIVE Join(_)
Join(texts) ==
    IF texts = <<>> THEN <<>>
    ELSE IF Len(texts) = 1 THEN texts[1]
    ELSE texts[1] \o <<"\n">> \o Join(Tail(texts))

IsKept(b) == b \in KeptBytes

\* re.sub(rb'[^\x09\x0A\x0D\x20-\x7E]', b'', joined)
Clean(joined) == SelectSeq(joined, IsKept)

extract_text_from_pdf(ss) == Collapse(Clean(Join(StreamTexts(ss, <<>>))))

\* main: the two header searches and the slice between them
EmbSection(t) ==
    LET start_match == SearchHeader(t, 1, <<"7">>, <<"8">>)
        end_match == SearchHeader(t, start_match[2], <<"9">>, <<"1", "0">>)
    IN  IF start_match[1] = 0 THEN [error |-> NoStart, section |-> <<>>]
        ELSE IF end_match[1] = 0 THEN [error |-> NoEnd, section |-> <<>>]
        ELSE [error |-> "", section |-> SubSeq(t, start_match[2], end_match[1] - 1)]

EmbMarkers ==
    {<<"L", "ö", "s", "u", "n", "g", ":">>,
     <<"L", "\\", "3", "6", "6", "s", "u", "n", "g", ":">>,
     <<"L", "ö", "s", "u", "n", "g", ".">>,
     <<"L", "o", "s", "u", "n", "g", ":">>}

\* a literal string object
Lit(chars) == IF chars = <<>> THEN <<>> ELSE <<"(">> \o chars \o <<")">>

\* an item shown by Tj as one literal or by TJ as two, cut inside the marker
RECURSIVE ShowItems(_, _)
ShowItems(items, split) ==
    IF items = <<>> THEN <<>>
    ELSE LET line == items[1].num \o <<" ">> \o items[1].marker \o <<" ">>
                         \o items[1].body
             cut == Len(items[1].num) + 2
         IN  (IF split
              THEN <<"[">> \o Lit(SubSeq(line, 1, cut)) \o <<"-", "9">>
                       \o Lit(SubSeq(line, cut + 1, Len(line))) \o <<"]", "T", "J", " ">>
              ELSE Lit(line) \o <<"T", "j", " ">>)
             \o ShowItems(Tail(items), split)

\* an image stream that is not zlib data, then two pages of text
PdfStreams(in) ==
    <<[inflates |-> FALSE, data |-> <<"(", "x", ")">>],
      [inflates |-> TRUE,
       data |-> <<"B", "T", " ">> \o Lit(in.h78) \o <<"T", "j", " ">>
                    \o ShowItems(in.items, in.split) \o <<"E", "T">>],
      [inflates |-> TRUE,
       data |-> <<"B", "T", " ">> \o Lit(in.h910) \o <<"T", "j", " ">>
                    \o <<"(", "S", "e", "i", "t", "e", " ", "\\", "(", "2", "\\", ")", " ", "(", "b", ")", ")">> \o <<"T", "j", " ", "E", "T">>]>>

InitEmb ==
    /\ CliIdle
    /\ WordIdle
    /\ script = "emb"
    /\ pc = "start"
    /\ input \in [h78 : Headers78, items : ItemLists(ItemNums, EmbMarkers),
                  split : BOOLEAN, h910 : Headers910]
    /\ streams = PdfStreams(input)
    /\ text = <<>>
    /\ section = <<>>
    /\ matches = <<>>
    /\ solutions = <<>>
    /\ error = ""
    /\ written = OldFile
    /\ CropIdle
    /\ ClusterIdle
    /\ GenIdle

\* text = extract_text_from_pdf(pdf_path)
EmbExtractText ==
    /\ script = "emb" /\ pc = "start"
    /\ text' = extract_text_from_pdf(streams)
    /\ pc' = "text"
    /\ UNCHANGED <<script, wordVars, cliVars, cropVars, clusterVars, genVars, input, streams,
                   section, matches, solutions, error, written>>

\* a header is missing: the message is printed, sys.exit(1)
EmbNoSection ==
    /\ script = "emb" /\ pc = "text"
    /\ \E found \in {EmbSection(text)} :
          /\ found.error # ""
          /\ error' = found.error
    /\ pc' = "exit"
    /\ UNCHANGED <<script, wordVars, cliVars, cropVars, clusterVars, genVars, input, streams, text,
                   section, matches, solutions, written>>

\* section = text[start_match.end():end_match.start()]
EmbTakeSection ==
    /\ script = "emb" /\ pc = "text"
    /\ \E found \in {EmbSection(text)} :
          /\ found.error = ""
          /\ section' = found.section
    /\ pc' = "section"
    /\ UNCHANGED <<script, wordVars, cliVars, cropVars, clusterVars, genVars, input, streams, text,
                   matches, solutions, error, written>>

\* the rest of main: findall, then exit 1 on no match, else the mapping is
\* built and written
EmbSolutions ==
    /\ script = "emb" /\ pc = "section"
    /\ \E found \in {FindAll(section, 1, FALSE)} :
          /\ matches' = found
          /\ IF found = <<>>
             THEN /\ error' = NoSolutions
                  /\ pc' = "exit"
                  /\ UNCHANGED <<solutions, written>>
             ELSE /\ solutions' = BuildEmb(found, <<>>)
                  /\ written' = [old |-> FALSE, data |-> solutions']
                  /\ pc' = "done"
                  /\ UNCHANGED error
    /\ UNCHANGED <<script, wordVars, cliVars, cropVars, clusterVars, genVars, input, streams, text,
                   section>>

NextEmb ==
    \/ EmbExtractText
    \/ EmbNoSection
    \/ EmbTakeSection
    \/ EmbSolutions

SpecEmb == InitEmb /\ [][NextEmb]_vars

\* the PDF shows both headers and, between them, one or more items
\* '<n> Lösung<: or .> <text>' with n in 1..30, the umlaut as the byte \xF6
\* or as the escape \366
EmbLoesungItems(in) ==
    /\ in.h78 # <<>> /\ in.h910 # <<>>
    /\ in.items # <<>>
    /\ \A i \in 1..Len(in.items) :
          /\ in.items[i].marker # <<"L", "o", "s", "u", "n", "g", ":">>
          /\ ItemNumber(in, i) \in 1..30

----------------------------------------------------------------------------
(* The loop over the matches in both solution extractors, on the           *)
(* (num_str, solution) pairs findall can return.                           *)

MaxMatches == 2
MaxNum == 31

\* the decimal digits of n
RECURSIVE DigitsOf(_)
DigitsOf(n) ==
    IF n < 10 THEN <<DigitChars[n + 1]>>
    ELSE DigitsOf(n \div 10) \o <<DigitChars[(n % 10) + 1]>>

\* what (\d+) can capture: 0..MaxNum, a leading zero, three digits
NumStrs == {DigitsOf(n) : n \in 0..MaxNum} \cup {<<"0", "7">>, <<"1", "0", "0">>}

\* what (.*?) can capture for the i-th match
CapturedAt(i) == <<" ">> \o BodyAt(i) \o <<" ", " ">>

MatchLists ==
    UNION {{[i \in 1..n |-> [num_str |-> f[i], solution |-> CapturedAt(i)]] :
               f \in [1..n -> NumStrs]} : n \in 0..MaxMatches}

InitMap ==
    /\ CliIdle
    /\ WordIdle
    /\ script = "map"
    /\ pc = "start"
    /\ matches \in MatchLists
    /\ input = <<>>
    /\ streams = <<>>
    /\ text = <<>>
    /\ section = <<>>
    /\ solutions = <<>>
    /\ error = ""
    /\ written = OldFile
    /\ CropIdle
    /\ ClusterIdle
    /\ GenIdle

\* ocr_translate_solutions.py: the loop of extract_solutions
MapOcr ==
    /\ script = "map" /\ pc = "start"
    /\ solutions' = BuildOcr(matches, <<>>)
    /\ pc' = "ocr"
    /\ UNCHANGED <<script, wordVars, cliVars, cropVars, clusterVars, genVars, input, streams, text,
                   section, matches, error, written>>

\* extract_solutions.py: the loop of main
MapEmb ==
    /\ script = "map" /\ pc = "start"
    /\ solutions' = BuildEmb(matches, <<>>)
    /\ pc' = "emb"
    /\ UNCHANGED <<script, wordVars, cliVars, cropVars, clusterVars, genVars, input, streams, text,
                   section, matches, error, written>>

NextMap ==
    \/ MapOcr
    \/ MapEmb

SpecMap == InitMap /\ [][NextMap]_vars

ValidIds == {AIds[k] : k \in 1..10} \cup {BIds[k] : k \in 1..10}
                \cup {CIds[k] : k \in 1..10}

\* the item numbers among the matches that lie in 1..30
MatchedInRange ==
    {ParseInt(matches[i].num_str) : i \in 1..Len(matches)} \cap (1..30)

(* C8: in both extractors a matched item number n in 1..30 gets the ID     *)
(* with letter A for 1..10, B for 11..20, C for 21..30 and index           *)
(* ((n-1) mod 10)+1 (1, 10, 11, 20, 21, 30 give A1, A10, B1, B10, C1,      *)
(* C10); the mapping is injective on 1..30 and its image is the 30 valid   *)
(* IDs; a matched number outside 1..30 produces no entry.                  *)
C8_ItemMapping ==
    /\ (script = "map" /\ pc \in {"ocr", "emb"}) =>
           DOMAIN solutions = {ExpectedQid(n) : n \in MatchedInRange}
    /\ pc = "ocr" =>
           /\ \A n \in 1..30 : QidOcr(n) = ExpectedQid(n)
           /\ <<QidOcr(1), QidOcr(10), QidOcr(11), QidOcr(20), QidOcr(21), QidOcr(30)>>
                  = <<"A1", "A10", "B1", "B10", "C1", "C10">>
           /\ \A n, k \in 1..30 : QidOcr(n) = QidOcr(k) => n = k
           /\ {QidOcr(n) : n \in 1..30} = ValidIds
    /\ pc = "emb" =>
           /\ \A n \in 1..30 : QidEmb(n) = ExpectedQid(n)
           /\ <<QidEmb(1), QidEmb(10), QidEmb(11), QidEmb(20), QidEmb(21), QidEmb(30)>>
                  = <<"A1", "A10", "B1", "B10", "C1", "C10">>
           /\ \A n, k \in 1..30 : QidEmb(n) = QidEmb(k) => n = k
           /\ {QidEmb(n) : n \in 1..30} = ValidIds
    /\ Cardinality(ValidIds) = 30

\* the matches 11 and 31 went through the OCR extractor's loop: B1 only
C8_Witness ==
    /\ script = "map" /\ pc = "ocr"
    /\ Len(matches) = 2
    /\ matches[1].num_str = <<"1", "1">>
    /\ matches[2].num_str = <<"3", "1">>
    /\ DOMAIN solutions = {"B1"}

\* the matches 30 and 0 went through the embedded-text extractor's loop
C8_WitnessEmb ==
    /\ script = "map" /\ pc = "emb"
    /\ Len(matches) = 2
    /\ matches[1].num_str = <<"3", "0">>
    /\ matches[2].num_str = <<"0">>
    /\ DOMAIN solutions = {"C10"}

----------------------------------------------------------------------------
(* The start of main in the four scripts: what each does with sys.argv and *)
(* with a PDF that is missing.                                             *)

\* the keys of PDFS, in dict order
Years == <<"2025", "2024", "2023">>

\* len(sys.argv) < 3, or pdf_path does not exist
ArgsLackFileTest == argv_len < 3

BadArgs == argv_len < 3 \/ ~pdf_exists

InitCli ==
    /\ script \in {"gen", "emb", "ocr", "labels"}
    /\ pc = IF script = "gen" THEN "start" ELSE "main"
    /\ argv_len \in 1..3
    /\ pdf_exists \in BOOLEAN
    /\ year_known \in BOOLEAN
    /\ WordIdle
    /\ pdfs \in [1..Len(Years) -> BOOLEAN]
    /\ year_index = 1
    /\ label_files = {}
    /\ printed = <<>>
    /\ api_key = TRUE
    /\ num_pages = 1
    /\ page_num = 0
    /\ q_index = 0
    /\ attempt = 0
    /\ log = <<>>
    /\ accepted = None
    /\ explanation = None
    /\ explanations = <<>>
    /\ out_file = OldFile
    /\ writes = 0
    /\ exit_code = -1
    /\ CropIdle
    /\ ClusterIdle
    /\ TextIdle

\* extract_solutions.py and ocr_translate_solutions.py, main: too few
\* arguments or a missing file: message and sys.exit(1)
SolutionsRejectArgs ==
    /\ script \in {"emb", "ocr"} /\ pc = "main"
    /\ BadArgs
    /\ printed' = Append(printed, IF argv_len < 3 THEN "Usage" ELSE "File not found")
    /\ pc' = "exit"
    /\ exit_code' = 1
    /\ UNCHANGED <<script, wordVars, pdfs, year_index, label_files, cropVars, clusterVars,
                   textVars, argv_len, pdf_exists, year_known, api_key, num_pages,
                   page_num, q_index, attempt, log, accepted, explanation,
                   explanations, out_file, writes>>

\* the same scripts: the arguments pass and the extraction starts
SolutionsAcceptArgs ==
    /\ script \in {"emb", "ocr"} /\ pc = "main"
    /\ ~BadArgs
    /\ pc' = "start"
    /\ UNCHANGED <<script, wordVars, cliVars, cropVars, clusterVars, textVars, genVars>>

\* extract_label_positions.py, main: a PDF of PDFS is missing and is skipped
LabelsSkipMissing ==
    /\ script = "labels" /\ pc = "main"
    /\ year_index <= Len(Years)
    /\ ~pdfs[year_index]
    /\ printed' = Append(printed, "Skipping missing file")
    /\ year_index' = year_index + 1
    /\ UNCHANGED <<script, wordVars, pc, pdfs, label_files, cropVars, clusterVars, textVars,
                   genVars>>

\* extract_for_pdf returns and label_positions_<year>.json is written
LabelsWrite ==
    /\ script = "labels" /\ pc = "main"
    /\ year_index <= Len(Years)
    /\ pdfs[year_index]
    /\ label_files' = label_files \cup {Years[year_index]}
    /\ printed' = Append(printed, "Wrote")
    /\ year_index' = year_index + 1
    /\ UNCHANGED <<script, wordVars, pc, pdfs, cropVars, clusterVars, textVars, genVars>>

\* pdfinfo or pdftotext fails under check=True: the exception ends the run
LabelsToolFails ==
    /\ script = "labels" /\ pc = "main"
    /\ year_index <= Len(Years)
    /\ pdfs[year_index]
    /\ pc' = "exit"
    /\ exit_code' = 1
    /\ UNCHANGED <<script, wordVars, cliVars, cropVars, clusterVars, textVars, argv_len,
                   pdf_exists, year_known, api_key, num_pages, page_num, q_index,
                   attempt, log, accepted, explanation, explanations, out_file,
                   writes>>

\* the loop over PDFS is over: the script ends with status 0
LabelsDone ==
    /\ script = "labels" /\ pc = "main"
    /\ year_index > Len(Years)
    /\ pc' = "exit"
    /\ exit_code' = 0
    /\ UNCHANGED <<script, wordVars, cliVars, cropVars, clusterVars, textVars, argv_len,
                   pdf_exists, year_known, api_key, num_pages, page_num, q_index,
                   attempt, log, accepted, explanation, explanations, out_file,
                   writes>>

NextCli ==
    \/ GenRejectArgs
    \/ GenRenderPages
    \/ SolutionsRejectArgs
    \/ SolutionsAcceptArgs
    \/ LabelsSkipMissing
    \/ LabelsWrite
    \/ LabelsToolFails
    \/ LabelsDone

SpecCli == InitCli /\ [][NextCli]_vars

\* main is past its argument handling
ArgsHandled ==
    \/ script = "gen" /\ pc # "start"
    \/ script \in {"emb", "ocr"} /\ pc # "main"
    \/ script = "labels" /\ (year_index > 1 \/ pc = "exit")

\* fewer than two arguments, or a PDF the script is to read does not exist
BadInvocation ==
    \/ argv_len < 3
    \/ IF script = "labels" THEN \E k \in 1..Len(Years) : ~pdfs[k] ELSE ~pdf_exists

NoOutputFile == out_file = OldFile /\ written = OldFile /\ label_files = {}

\* the run printed a message, ended with a non-zero status and wrote nothing
Rejected ==
    /\ pc = "exit"
    /\ exit_code > 0
    /\ printed # <<>>
    /\ NoOutputFile

(* C11 as stated: each of the four scripts, invoked with fewer than two    *)
(* arguments or with a PDF path that does not exist, prints a message,     *)
(* exits with a non-zero status and writes no output file.                 *)
C11_FourScripts ==
    (ArgsHandled /\ BadInvocation) => Rejected

(* C11 amended: the three scripts that take <pdf-path> <year>              *)
(* (generate_explanations_from_pdf.py, extract_solutions.py,               *)
(* ocr_translate_solutions.py) print a message, exit with a non-zero       *)
(* status and write no output file when invoked with fewer than two        *)
(* arguments or with a PDF path that does not exist.                       *)
(* extract_label_positions.py reads no argument: it goes through its three *)
(* fixed PDF paths, prints 'Skipping missing file' for each one that does  *)
(* not exist and writes no file for it, and when the loop ends it exits    *)
(* with status 0 having written a file for every PDF that exists.          *)
C11_ThreeScripts ==
    /\ (script \in {"gen", "emb", "ocr"} /\ ArgsHandled /\ BadInvocation) => Rejected
    /\ (script = "labels" /\ pc = "exit" /\ exit_code = 0) =>
           /\ label_files = {Years[y] : y \in {k \in 1..Len(Years) : pdfs[k]}}
           /\ Len(SelectSeq(printed, LAMBDA m : m = "Skipping missing file"))
                  = Cardinality({k \in 1..Len(Years) : ~pdfs[k]})
    /\ script = "labels" =>
           \A k \in 1..Len(Years) : ~pdfs[k] => Years[k] \notin label_files

\* extract_solutions.py was given two arguments, the PDF does not exist, and
\* the run ended in the 'File not found' exit
C11_Witness ==
    /\ script = "emb" /\ pc = "exit"
    /\ argv_len = 3 /\ ~pdf_exists
    /\ printed = <<"File not found">>
    /\ exit_code = 1

\* extract_label_positions.py ended with status 0 although one PDF is missing
C11_WitnessLabels ==
    /\ script = "labels" /\ pc = "exit" /\ exit_code = 0
    /\ argv_len = 1
    /\ pdfs = <<TRUE, FALSE, TRUE>>
    /\ label_files = {"2025", "2023"}

----------------------------------------------------------------------------
(* The output file of generate_explanations_from_pdf.py.                   *)

\* the question IDs of the pages main processes
ProcessedQids ==
    UNION {{by_page(p)[i] : i \in 1..Len(by_page(p))} :
              p \in {k \in 1..Len(questions_by_page) : k <= num_pages}}

\* a request for the question ID the run ended on came back as a failure
RequestFailed == \E i \in 1..Len(log) : log[i].status # "ok"

(* C12 as stated: the output file is written at most once per run, only    *)
(* after a result has been recorded for every question ID of every         *)
(* processed page, and if any step fails for any question - the first      *)
(* request included - the run ends with the old file unchanged.            *)
C12_AnyFailure ==
    /\ script = "gen" => writes <= 1
    /\ (script = "gen" /\ writes = 1) => ProcessedQids \subseteq DOMAIN explanations
    /\ (script = "gen" /\ pc = "exit" /\ RequestFailed) => out_file = OldFile

(* C12 amended: the year's output file is written at most once per run,    *)
(* and only after a result has been recorded for every question ID of      *)
(* every processed page; a run that ends in a failure (non-zero status)    *)
(* leaves the file that existed before unchanged. A failed request that    *)
(* the retry makes good does not end the run.                              *)
C12_NoPartialResults ==
    script = "gen" =>
        /\ writes <= 1
        /\ writes = 0 => out_file = OldFile
        /\ writes = 1 =>
              /\ pc = "exit" /\ exit_code = 0
              /\ out_file = explanations
              /\ ProcessedQids \subseteq DOMAIN explanations
        /\ (pc = "exit" /\ exit_code # 0) => out_file = OldFile

\* the file was written after both question IDs of the page were recorded
C12_Witness ==
    /\ script = "gen" /\ pc = "exit"
    /\ num_pages = 1
    /\ writes = 1
    /\ DOMAIN out_file = ProcessedQids
    /\ Cardinality(ProcessedQids) = QuestionsPerPage

\* the run failed after a result had been recorded: the old file is intact
C12_WitnessFailure ==
    /\ script = "gen" /\ pc = "exit" /\ exit_code = 1
    /\ explanations # <<>>
    /\ out_file = OldFile

----------------------------------------------------------------------------
(* compute_crop on pages whose labels drift to the right inside a column   *)
(* and stand close to one another.                                         *)

MaxColumn == 4

\* left coordinates 90, 45 and 35 apart; tops 20, 10 and 170 apart
ColumnLefts == <<R(60), R(150), R(195), R(230)>>
ColumnTops == <<R(100), R(120), R(130), R(300)>>

\* the label boxes, ordered by left and then by top
ColumnPoint(k) ==
    [left |-> ColumnLefts[((k - 1) \div Len(ColumnTops)) + 1],
     top |-> ColumnTops[((k - 1) % Len(ColumnTops)) + 1]]

\* the dict holds the labels from left to right and from top to bottom;
\* InitCrop draws the other orders
InitColumn ==
    /\ CliIdle
    /\ WordIdle
    /\ script = "crop"
    /\ pc = "start"
    /\ image_size = <<990, 1400>>
    /\ \E n \in 0..MaxColumn :
          \E f \in [1..n -> 1..(Len(ColumnLefts) * Len(ColumnTops))] :
              /\ \A i \in 1..(n - 1) : f[i] <= f[i + 1]
              /\ label_positions =
                    [i \in 1..n |-> [id |-> PageIds[i],
                                     left |-> ColumnPoint(f[i]).left,
                                     top |-> ColumnPoint(f[i]).top]]
              /\ qid \in {PageIds[i] : i \in 1..(n + 1)}
    /\ crop = <<>>
    /\ frame = NoFrame
    /\ ClusterIdle
    /\ GenIdle
    /\ TextIdle

SpecColumn == InitColumn /\ [][NextCrop]_vars

\* the index of the cluster cluster_columns put the target in
ClusterOf(q) ==
    CHOOSE c \in 1..Len(frame.clusters) :
        \E i \in 1..Len(frame.clusters[c].items) : frame.clusters[c].items[i].id = q

(* C13: for every set of label boxes and every labelled target, the        *)
(* cluster compute_crop selects by nearest center is the cluster that      *)
(* cluster_columns placed the target in: the target is found among the     *)
(* column items (current_index is never -1).                               *)
C13_TargetInColumn ==
    (CropDone /\ frame.labelled) =>
        /\ frame.idx = ClusterOf(qid)
        /\ frame.current_index # 0
        /\ frame.column_items[frame.current_index].id = qid

----------------------------------------------------------------------------
(* extract_label_positions of generate_explanations_from_pdf.py: the word  *)
(* boxes of a page are grouped into lines, and each line is scanned from   *)
(* left to right for question labels.                                      *)

\* tolerance = 2.5
line_tolerance == <<5, 2>>

\* str.upper on the characters the inputs hold
Upper(c) ==
    IF \E k \in 1..Len(LowerChars) : LowerChars[k] = c
    THEN UpperChars[CHOOSE k \in 1..Len(LowerChars) : LowerChars[k] = c]
    ELSE c

\* [A-Za-z0-9]
IsAsciiAlnum(c) ==
    \/ IsDigit(c)
    \/ \E k \in 1..26 : UpperChars[k] = c \/ LowerChars[k] = c

normalize_token(token) ==
    LET cleaned == SelectSeq([i \in 1..Len(token) |-> Upper(token[i])], IsAsciiAlnum)
    IN  [i \in 1..Len(cleaned) |-> IF cleaned[i] = "O" THEN "0" ELSE cleaned[i]]

\* next(..., None) over positions: the first one, 0 for None
FirstIn(positions_) == IF positions_ = {} THEN 0 ELSE Least(positions_)

\* the first line whose y is within the tolerance of the word, 0 if none
LineOf(lines, word) ==
    FirstIn({i \in 1..Len(lines) :
              RLe(RAbs(RSub(lines[i].y, word.yMin)), line_tolerance)})

AddToLine(lines, i, word) ==
    IF i = 0
    THEN Append(lines, [y |-> word.yMin, words |-> <<word>>])
    ELSE [lines EXCEPT ![i] = [y |-> RScale(RAdd(@.y, word.yMin), 1, 2),
                               words |-> Append(@.words, word)]]

RECURSIVE GroupLines(_, _)
GroupLines(ws, lines) ==
    IF ws = <<>> THEN lines
    ELSE GroupLines(Tail(ws), AddToLine(lines, LineOf(lines, ws[1]), ws[1]))

RECURSIVE InsertByXMin(_, _)
InsertByXMin(s, w) ==
    IF s = <<>> THEN <<w>>
    ELSE IF RLt(w.xMin, s[1].xMin) THEN <<w>> \o s
    ELSE <<s[1]>> \o InsertByXMin(Tail(s), w)

RECURSIVE SortByXMin(_)
SortByXMin(s) ==
    IF s = <<>> THEN <<>>
    ELSE InsertByXMin(SortByXMin(SubSeq(s, 1, Len(s) - 1)), s[Len(s)])

\* the characters of PageIds[i]
QidToken(i) == <<"A", DigitChars[i + 1]>>

\* the index in PageIds of the ID a token spells, 0 if it spells none
InLabelSet(token) == FirstIn({i \in 1..Len(PageIds) : QidToken(i) = token})

\* {str(n) for n in range(1, 11)}
NumberTokens == {<<DigitChars[n + 1]>> : n \in 1..9} \cup {<<"1", "0">>}

NoLabel == [label |-> 0]

\* a word that is a label by itself
WholeLabel(word, token) ==
    [label |-> InLabelSet(token),
     left |-> word.xMin, top |-> word.yMin,
     right |-> word.xMax, bottom |-> word.yMax]

\* a letter followed by a number in the next word
SplitLabel(word, next_word, token, next_token) ==
    IF next_token \in NumberTokens
    THEN [label |-> InLabelSet(token \o next_token),
          left |-> RMin(word.xMin, next_word.xMin),
          top |-> RMin(word.yMin, next_word.yMin),
          right |-> RMax(word.xMax, next_word.xMax),
          bottom |-> RMax(word.yMax, next_word.yMax)]
    ELSE NoLabel

\* the label that starts at word idx of a line, with its unscaled box
LabelOfToken(line_words, idx, token) ==
    IF InLabelSet(token) # 0 THEN WholeLabel(line_words[idx], token)
    ELSE IF token \in {<<"A">>, <<"B">>, <<"C">>} /\ idx + 1 <= Len(line_words)
    THEN SplitLabel(line_words[idx], line_words[idx + 1], token,
                    normalize_token(line_words[idx + 1].text))
    ELSE NoLabel

LabelAt(line_words, idx) ==
    LabelOfToken(line_words, idx, normalize_token(line_words[idx].text))

\* the position of the entry of a label in the dict, 0 if it has none
Existing(found, label) ==
    FirstIn({e \in 1..Len(found) : found[e].id = PageIds[label]})

Scaled(box, sx, sy) ==
    [id |-> PageIds[box.label],
     left |-> RScale(box.left, sx[1], sx[2]),
     top |-> RScale(box.top, sy[1], sy[2]),
     right |-> RScale(box.right, sx[1], sx[2]),
     bottom |-> RScale(box.bottom, sy[1], sy[2])]

\* the unscaled left of the occurrence is compared with the stored left
Replaces(found, e, box) == e = 0 \/ RLt(box.left, found[e].left)

Store(found, e, box, sx, sy) ==
    IF ~Replaces(found, e, box) THEN found
    ELSE IF e = 0 THEN Append(found, Scaled(box, sx, sy))
    ELSE [found EXCEPT ![e] = Scaled(box, sx, sy)]

Retain(found, box, sx, sy) ==
    IF box.label = 0 THEN found
    ELSE Store(found, Existing(found, box.label), box, sx, sy)

RECURSIVE ScanLine(_, _, _, _, _)
ScanLine(line_words, idx, found, sx, sy) ==
    IF idx > Len(line_words) THEN found
    ELSE ScanLine(line_words, idx + 1,
                  Retain(found, LabelAt(line_words, idx), sx, sy), sx, sy)

RECURSIVE ScanLines(_, _, _, _)
ScanLines(lines, found, sx, sy) ==
    IF lines = <<>> THEN found
    ELSE ScanLines(Tail(lines),
                   ScanLine(SortByXMin(lines[1].words), 1, found, sx, sy), sx, sy)

extract_label_positions(ws, sx, sy) == ScanLines(GroupLines(ws, <<>>), <<>>, sx, sy)

----------------------------------------------------------------------------
(* Pages of a few words.                                                   *)

MaxWords == 3

WordXs == <<R(100), R(150), R(300)>>
\* two rows 2 apart, which one line holds, and a row further down
WordYs == <<R(50), R(52), R(200)>>
WordTexts == << <<"A", "1">>, <<"(", "a", "1", ")">>, <<"A">>, <<"1">> >>

\* (scale_x, scale_y): a page rendered smaller, as large and larger than its
\* size in points, and one stretched
Scales ==
    { <<<<1, 2>>, <<1, 2>>>>, <<R(1), R(1)>>, <<R(2), R(2)>>, <<R(2), R(1)>> }

\* the word boxes, 20 wide and 10 high, in reading order
WordBox(k, t) ==
    LET x == WordXs[((k - 1) % Len(WordXs)) + 1]
        y == WordYs[((k - 1) \div Len(WordXs)) + 1]
    IN  [xMin |-> x, yMin |-> y,
         xMax |-> RAdd(x, R(20)), yMax |-> RAdd(y, R(10)),
         text |-> WordTexts[t]]

InitLabels ==
    /\ script = "extract"
    /\ pc = "start"
    /\ \E n \in 0..MaxWords :
          \E f \in [1..n -> 1..(Len(WordXs) * Len(WordYs))] :
              \E t \in [1..n -> 1..Len(WordTexts)] :
                  /\ \A i \in 1..(n - 1) : f[i] < f[i + 1]
                  /\ words = [i \in 1..n |-> WordBox(f[i], t[i])]
    /\ \E s \in Scales : scale_x = s[1] /\ scale_y = s[2]
    /\ CropIdle
    /\ ClusterIdle
    /\ GenIdle
    /\ TextIdle
    /\ CliIdle

ExtractLabels ==
    /\ script = "extract"
    /\ pc = "start"
    /\ label_positions' = extract_label_positions(words, scale_x, scale_y)
    /\ pc' = "done"
    /\ UNCHANGED <<script, wordVars, cliVars, image_size, qid, crop, frame,
                   clusterVars, genVars, textVars>>

NextLabels == ExtractLabels

SpecLabels == InitLabels /\ [][NextLabels]_vars

\* the unscaled boxes of the occurrences of PageIds[label] on the page
Occurrences(lines, label) ==
    {box \in UNION {{LabelAt(SortByXMin(lines[l].words), idx) :
                        idx \in 1..Len(lines[l].words)} : l \in 1..Len(lines)} :
        box.label = label}

LeftMost(occ) == {o \in occ : \A o2 \in occ : RLe(o.left, o2.left)}

RetainedFor(label) ==
    {e \in 1..Len(label_positions) : label_positions[e].id = PageIds[label]}

LeftMostRetained(occ, label) ==
    occ # {} =>
        /\ Cardinality(RetainedFor(label)) = 1
        /\ \E e \in RetainedFor(label) :
              \E o \in LeftMost(occ) :
                  label_positions[e] = Scaled(o, scale_x, scale_y)

(* C14: when a question ID occurs more than once on a page,                *)
(* extract_label_positions keeps exactly one position for it, and that     *)
(* position is the occurrence with the smallest unscaled left coordinate,  *)
(* returned scaled, whatever the positive scale factors are.               *)
C14_LeftMostWins ==
    (script = "extract" /\ pc = "done") =>
        \A label \in 1..Len(PageIds) :
            LeftMostRetained(Occurrences(GroupLines(words, <<>>), label), label)

----------------------------------------------------------------------------
(* The height estimate of compute_crop for a target without a next item,   *)
(* on the pages of SpecColumn.                                             *)

NoNextItem == CropDone /\ frame.labelled /\ frame.next_index = 0

\* the gap between item i of the selected column and the item before it
GapAt(i) == RSub(frame.column_items[i].top, frame.column_items[i - 1].top)

\* the items of the selected column that lie more than `least` below the
\* item before them
GapItems(least) ==
    {i \in 2..Len(frame.column_items) : RLt(least, GapAt(i))}

\* g stands in the middle of the gaps of the items I: at position
\* Cardinality(I) \div 2 of the sorted list, counted from 0 (the upper of the
\* two middle gaps when their number is even)
IsUpperMiddle(g, I) ==
    /\ \E i \in I : REq(GapAt(i), g)
    /\ Cardinality({i \in I : RLt(GapAt(i), g)}) <= Cardinality(I) \div 2
    /\ Cardinality({i \in I : RLe(GapAt(i), g)}) > Cardinality(I) \div 2

IsLowerMiddle(g, I) ==
    /\ \E i \in I : REq(GapAt(i), g)
    /\ Cardinality({i \in I : RLt(GapAt(i), g)}) <= (Cardinality(I) - 1) \div 2
    /\ Cardinality({i \in I : RLe(GapAt(i), g)}) > (Cardinality(I) - 1) \div 2

\* g is a median of the gaps of the items I: a middle gap, or the mean of
\* the two middle gaps
IsMedian(g, I) ==
    \/ IsUpperMiddle(g, I)
    \/ IsLowerMiddle(g, I)
    \/ \E lo \in {GapAt(i) : i \in I} : \E hi \in {GapAt(i) : i \in I} :
          /\ IsLowerMiddle(lo, I) /\ IsUpperMiddle(hi, I)
          /\ REq(g, RScale(RAdd(lo, hi), 1, 2))

\* current['top'] - prev_item['top']
PreviousGap ==
    RSub(LabelOf(label_positions, qid).top,
         frame.column_items[frame.current_index - 1].top)

(* C15 as stated: when the target has no next item and its column has at   *)
(* least two members, the estimate is the median of all positive vertical  *)
(* gaps between consecutive items of the column sorted by top; the gap to  *)
(* the previous item is used only when the column has no positive gap.     *)
C15_MedianOfPositiveGaps ==
    (NoNextItem /\ Len(frame.column_items) >= 2) =>
        IF GapItems(R(0)) # {}
        THEN IsMedian(frame.estimated, GapItems(R(0)))
        ELSE frame.current_index > 1 => REq(frame.estimated, PreviousGap)

(* C15 amended: when the target has no next item, the estimate is the      *)
(* middle one (the upper of the two middle ones for an even number) of the *)
(* gaps greater than 24 between consecutive items of the selected column   *)
(* sorted by top; when the column has no such gap it is the gap from the   *)
(* item before the target in the column to the target, if the target is in *)
(* the column and not its first item, and 25% of the page height           *)
(* otherwise. The bottom is the target's top plus the clamped estimate,    *)
(* capped at the image height.                                             *)
C15_MedianOfLargeGaps ==
    NoNextItem =>
        /\ IF GapItems(R(min_gap)) # {}
           THEN IsUpperMiddle(frame.estimated, GapItems(R(min_gap)))
           ELSE IF frame.current_index > 1
                THEN REq(frame.estimated, PreviousGap)
                ELSE REq(frame.estimated, RScale(R(image_size[2]), 1, 4))
        /\ REq(frame.bottom,
               RMin(R(image_size[2]),
                    RAdd(LabelOf(label_positions, qid).top,
                         AddedHeight(image_size[2], frame.estimated))))

\* a column with a gap of at most 24 and a larger one: the two statements
\* name different estimates
C15_Witness ==
    /\ NoNextItem
    /\ Len(frame.column_items) >= 3
    /\ GapItems(R(min_gap)) # {}
    /\ GapItems(R(0)) # GapItems(R(min_gap))
    /\ ~IsMedian(frame.estimated, GapItems(R(0)))

\* an even number of large gaps: the upper middle one is taken
C15_WitnessEven ==
    /\ NoNextItem
    /\ Cardinality(GapItems(R(min_gap))) = 2
    /\ ~IsLowerMiddle(frame.estimated, GapItems(R(min_gap)))

\* no large gap: the gap to the previous item, small but positive
C15_WitnessPrevious ==
    /\ NoNextItem
    /\ GapItems(R(min_gap)) = {}
    /\ frame.current_index > 1
    /\ RLt(R(0), frame.estimated)

\* no large gap and the target first in the column, or not in it
C15_WitnessQuarter ==
    /\ NoNextItem
    /\ Len(frame.column_items) >= 2
    /\ GapItems(R(min_gap)) = {}
    /\ frame.current_index <= 1

----------------------------------------------------------------------------
(* The next item of compute_crop and the bottom it gives, on the pages of  *)
(* SpecColumn.                                                             *)

Target == LabelOf(label_positions, qid)

\* top exceeds the target's top by more than 4
FarBelow(item) == RLt(RAdd(Target.top, R(next_margin)), item.top)

\* the items of the cluster cluster_columns put the target in
OwnColumn == frame.clusters[ClusterOf(qid)].items

\* item is the first of the items s, in order of top, that lies far below
\* the target
FirstFarBelow(item, s) ==
    /\ FarBelow(item)
    /\ \A j \in 1..Len(s) : FarBelow(s[j]) => RLe(item.top, s[j].top)

(* C16 as stated: the next item is the first item of the target's column,  *)
(* in order of top, whose top exceeds the target's top by more than 4;     *)
(* when it exists, the bottom before the height floor and the image clamp  *)
(* is max(target top + 140, next item's top - 16).                         *)
C16_NextItemBottom ==
    (CropDone /\ frame.labelled) =>
        /\ (frame.next_index # 0) <=> (\E j \in 1..Len(OwnColumn) : FarBelow(OwnColumn[j]))
        /\ frame.next_index # 0 =>
              /\ FirstFarBelow(frame.column_items[frame.next_index], OwnColumn)
              /\ REq(frame.bottom,
                     RMax(RAdd(Target.top, R(min_bottom_offset)),
                          RSub(frame.column_items[frame.next_index].top,
                               R(padding_bottom))))

(* C16 amended: a next item exists exactly when the target is among the    *)
(* items of the selected column (the cluster with the nearest center) and  *)
(* an item of that column has a top exceeding the target's top by more     *)
(* than 4; it is then the first such item in order of top, and the bottom  *)
(* before the height floor and the image clamp is                          *)
(* max(crop top + 140, next item's top - 16), where crop top is            *)
(* max(0, target top - 24).                                                *)
C16_NextItemFromCropTop ==
    (CropDone /\ frame.labelled) =>
        /\ (frame.next_index # 0) <=>
              /\ frame.current_index # 0
              /\ \E j \in 1..Len(frame.column_items) : FarBelow(frame.column_items[j])
        /\ frame.next_index # 0 =>
              /\ FirstFarBelow(frame.column_items[frame.next_index], frame.column_items)
              /\ REq(frame.top, RMax(R(0), RSub(Target.top, R(padding_top))))
              /\ REq(frame.bottom,
                     RMax(RAdd(frame.top, R(min_bottom_offset)),
                          RSub(frame.column_items[frame.next_index].top,
                               R(padding_bottom))))

\* a next item so close below the target that crop top + 140 is the bottom
C16_Witness ==
    /\ CropDone /\ frame.labelled
    /\ frame.next_index # 0
    /\ REq(frame.bottom, RAdd(frame.top, R(min_bottom_offset)))
    /\ RLt(frame.bottom, RAdd(Target.top, R(min_bottom_offset)))

\* a next item far enough below that its top - 16 is the bottom
C16_WitnessFar ==
    /\ CropDone /\ frame.labelled
    /\ frame.next_index # 0
    /\ RLt(RAdd(Target.top, R(min_bottom_offset)), frame.bottom)

\* the target is not in the selected column, which has an item far below it
C16_WitnessOtherColumn ==
    /\ CropDone /\ frame.labelled
    /\ frame.current_index = 0
    /\ frame.next_index = 0
    /\ \E j \in 1..Len(frame.column_items) : FarBelow(frame.column_items[j])

====
